---- MODULE Spec2Model ----
\* Content Intelligence Analysis Engine of confluence_enhancer_ai:
\* roadmap planner, technology detector, suggestion ordering and the
\* analysis orchestrators, each translated from the Python source.
EXTENDS Integers, Sequences, FiniteSets, TLC

\* ------------------------------------------------------------------
\* Bounds of the model
\* ------------------------------------------------------------------
MaxSuggestions == 3
MaxMentions == 3
MaxWords == 3
MaxClock == 1
MaxRuns == 2

\* A Python exception leaving a function
Raised(kind) == [raised |-> kind]
IsRaised(v) == "raised" \in DOMAIN v

\* dict.get(key, default)
Get(d, key, default) == IF key \in DOMAIN d THEN d[key] ELSE default

VARIABLES
  suggestions,     \* argument of the last roadmap call
  roadmap,         \* its return value (or the exception it raised)
  content,         \* the text handed to the technology detector, as mentions
  detections,      \* what analyze_technology_stack returned for it
  tm_content,      \* the content handed to TechnologyModernizer, as words
  tm_suggestions,  \* what its analyze_content returned
  enhancements,    \* what generate_enhancements returned last
  recommendations, \* the recommendations of the last enhanced analysis
  components,      \* which module-level components of main.py exist
  now,             \* the wall clock, in seconds
  history,         \* the analysis requests handled so far, with their responses
  alt_detections,        \* argument of the last suggest_alternatives call
  alt_suggestions,       \* the dict it returned
  alternatives_database, \* AlternativeSuggester.alternatives_database
  migration_templates,   \* AlternativeSuggester.migration_templates
  migration_plan,        \* the last migration plan created
  plans_created,         \* how many plans were created
  entry_alternatives,    \* the alternatives of one database entry
  ranked,                \* the same alternatives after scoring and sorting
  analysis_call,         \* the last call of the quality / structure scorer
  analysis_result,       \* the AnalysisResult it returned (or the exception raised)
  analyses_done,         \* how many scorer calls were made
  column,                \* the values of the column handed to the classifier
  column_profile,        \* the profile it returned (or the exception raised)
  added_signature,       \* the pattern added to technology_patterns (None: the shipped table)
  wiki_requests,         \* the requests sent to the wiki so far, oldest first
  page_creation,         \* the last page creation: what was asked and what came back
  column_types,          \* the type the classifier gave to each column of a table, in header order
  visualization_suggestions, \* the chart suggestions generated for that table
  chunking,              \* the call of chunk_text in progress: its arguments, loop index and chunks
  extraction,            \* the last POST /analysis/extract with its response
  heading_fix            \* the last heading list handed to _fix_heading_hierarchy with its result

vars == <<suggestions, roadmap, content, detections, tm_content, tm_suggestions,
          enhancements, recommendations, components, now, history,
          alt_detections, alt_suggestions, alternatives_database, migration_templates,
          migration_plan, plans_created, entry_alternatives, ranked,
          analysis_call, analysis_result, analyses_done, column, column_profile,
          added_signature,
          wiki_requests, page_creation,
          column_types, visualization_suggestions,
          chunking,
          extraction,
          heading_fix>>

\* ------------------------------------------------------------------
\* Roadmap planner: ModernizationEngine (modernization_engine.py)
\* ------------------------------------------------------------------

\* keys of the `phases` dict, in insertion order (the order .items() yields)
phases_keys_sorted == <<"critical", "high", "low", "medium">>
phases_keys == <<"critical", "high", "medium", "low">>

\* str.title() on the urgency keys
title == [critical |-> "Critical", high |-> "High", medium |-> "Medium", low |-> "Low"]

effort_map == [low |-> 3, medium |-> 8, high |-> 16, critical |-> 24]

team_map ==
  [low      |-> [developers |-> "1-2", architect |-> "part-time", qa |-> "1"],
   medium   |-> [developers |-> "2-4", architect |-> "part-time", qa |-> "1-2"],
   high     |-> [developers |-> "4-6", architect |-> "full-time", qa |-> "2-3"],
   critical |-> [developers |-> "6+",  architect |-> "full-time", qa |-> "3+"]]

\* code point of the first character of each effort level: Python compares
\* str values lexicographically, and the four levels differ in their first
\* character ('c' < 'h' < 'l' < 'm')
FirstCharCode == [critical |-> 99, high |-> 104, low |-> 108, medium |-> 109]

\* max() over a list of str
RECURSIVE PyStrMax(_)
PyStrMax(strs) ==
  IF Len(strs) = 1 THEN strs[1]
  ELSE LET rest == PyStrMax(Tail(strs))
       IN IF FirstCharCode[rest] > FirstCharCode[strs[1]] THEN rest ELSE strs[1]

\* f'{n} weeks'
FormatWeeks(n) == ToString(n) \o " weeks"

_calculate_phase_duration_sum(phase_suggestions) ==
  LET RECURSIVE loop(_, _)
      loop(i, acc) ==
        IF i > Len(phase_suggestions) THEN acc
        ELSE LET effort == Get(phase_suggestions[i], "migration_effort", "medium")
             IN loop(i + 1, acc + Get(effort_map, effort, 8))
  IN loop(1, 0)

_calculate_phase_duration(phase_suggestions) ==
  LET RECURSIVE loop(_, _)
      loop(i, max_effort) ==
        IF i > Len(phase_suggestions) THEN max_effort
        ELSE LET effort == Get(phase_suggestions[i], "migration_effort", "medium")
                 effort_weeks == Get(effort_map, effort, 8)
             IN loop(i + 1, IF effort_weeks > max_effort THEN effort_weeks ELSE max_effort)
  IN loop(1, 0)

_calculate_team_requirements(phase_suggestions) ==
  LET effort_levels == [i \in 1..Len(phase_suggestions) |->
                          Get(phase_suggestions[i], "migration_effort", "medium")]
      max_effort == IF effort_levels # <<>> THEN PyStrMax(effort_levels) ELSE "medium"
  IN Get(team_map, max_effort, team_map["medium"])

_generate_phase_deliverables(phase_suggestions) ==
  <<"Migration plan documentation",
    "Updated codebase with modern technology",
    "Comprehensive testing suite",
    "Deployment and rollback procedures",
    "Team training materials",
    "Performance benchmarks and metrics">>

_generate_phase_prerequisites(phase_suggestions) ==
  <<"Stakeholder approval and budget allocation",
    "Development environment setup",
    "Team training and knowledge transfer",
    "Backup and rollback strategies",
    "Testing infrastructure preparation">>

_identify_phase_risks(phase_suggestions) ==
  <<"Compatibility issues with existing systems",
    "Data migration challenges",
    "Team learning curve and productivity impact",
    "Third-party dependency conflicts",
    "Unexpected technical debt discovery">>

_categorize_total_effort(total_weeks) ==
  IF total_weeks <= 4 THEN "Small"
  ELSE IF total_weeks <= 12 THEN "Medium"
  ELSE IF total_weeks <= 24 THEN "Large"
  ELSE "Enterprise"

\* phase_counter after one iteration of the phase loop: an empty bucket
\* takes the `continue`, an emitted phase ends with phase_counter += 1
phase_counter_step_always(phase_counter, phase_suggestions) == phase_counter + 1
phase_counter_step(phase_counter, phase_suggestions) ==
  IF phase_suggestions = <<>> THEN phase_counter ELSE phase_counter + 1

\* total_weeks += phase_duration
total_weeks_step_max(total_weeks, phase_duration) ==
  IF phase_duration > total_weeks THEN phase_duration ELSE total_weeks
total_weeks_step(total_weeks, phase_duration) == total_weeks + phase_duration

generate_modernization_roadmap(sugs) ==
  IF sugs = <<>>
  THEN [phases |-> <<>>, total_timeline |-> "0 weeks", total_effort |-> "none"]
  ELSE
    LET urgency(s) == Get(s, "modernization_urgency", "medium")
        known == {phases_keys[k] : k \in 1..Len(phases_keys)}
        \* phases[urgency].append(suggestion): KeyError on a key the dict lacks
        bad == {i \in 1..Len(sugs) : urgency(sugs[i]) \notin known}
        bucket(u) == LET member(s) == urgency(s) = u IN SelectSeq(sugs, member)
        RECURSIVE loop(_, _, _, _)
        loop(k, phase_counter, total_weeks, out) ==
          IF k > Len(phases_keys)
          THEN [phases |-> out,
                total_timeline |-> FormatWeeks(total_weeks),
                total_effort |-> _categorize_total_effort(total_weeks),
                resource_requirements |-> <<>>,
                risk_mitigation |-> <<>>,
                success_criteria |-> <<>>]
          ELSE
            LET u == phases_keys[k]
                phase_suggestions == bucket(u)
            IN IF phase_suggestions = <<>>
               THEN loop(k + 1, phase_counter_step(phase_counter, phase_suggestions),
                         total_weeks, out)
               ELSE
                 LET phase_duration == _calculate_phase_duration(phase_suggestions)
                     phase ==
                       [phase |-> "Phase " \o ToString(phase_counter),
                        priority |-> title[u],
                        duration |-> FormatWeeks(phase_duration),
                        technologies |-> [i \in 1..Len(phase_suggestions) |->
                                            phase_suggestions[i].original_technology],
                        modern_alternatives |-> [i \in 1..Len(phase_suggestions) |->
                                            phase_suggestions[i].modern_alternative],
                        deliverables |-> _generate_phase_deliverables(phase_suggestions),
                        prerequisites |-> _generate_phase_prerequisites(phase_suggestions),
                        risks |-> _identify_phase_risks(phase_suggestions),
                        team_requirements |-> _calculate_team_requirements(phase_suggestions)]
                 IN loop(k + 1, phase_counter_step(phase_counter, phase_suggestions),
                         total_weeks_step(total_weeks, phase_duration),
                         Append(out, phase))
    IN IF bad # {} THEN Raised("KeyError") ELSE loop(1, 1, 0, <<>>)

\* The suggestion dicts _suggest_modern_alternatives builds; "urgent" stands
\* for an urgency that is not a key of `phases`
UrgencyValues == {"critical", "high", "medium", "low", "urgent"}
EffortValues == {"low", "medium", "high", "critical"}
TechNames == {"java 8"}

SuggestionDicts ==
  [original_technology : TechNames,
   modern_alternative : {"Java 17 LTS"},
   modernization_urgency : UrgencyValues,
   migration_effort : EffortValues]

\* ------------------------------------------------------------------
\* Technology detector: TechAnalyzer (tech_analyzer.py)
\* ------------------------------------------------------------------

None == "None"

\* The lower-cased text is a sequence of technology mentions, one per line:
\* the word found, the version components written right after it, and
\* whether install / version / upgrade / dependency occurs within 50
\* characters of it.
Mentions ==
  [word : {"python"}, version : {<<>>, <<2>>, <<2, 7>>, <<2, 7, 1>>}, keyword : BOOLEAN]
  \cup [word : {"s3"}, version : {<<>>}, keyword : BOOLEAN]

\* technology_patterns, for the signatures 'python' (its first two
\* patterns) and 'aws' (its pattern 's3'), in dict order.  A pattern is
\* "versioned" (the word followed by a captured [0-9]+.[0-9]*.[0-9]*),
\* "word" (\bword\b) or "literal" (plain text without metacharacters).
technology_patterns ==
  << [tech |-> "python",
      patterns |-> << [kind |-> "versioned", word |-> "python", has_digit |-> TRUE],
                      [kind |-> "word", word |-> "python", has_digit |-> FALSE] >>],
     [tech |-> "aws",
      patterns |-> << [kind |-> "literal", word |-> "s3", has_digit |-> TRUE] >>] >>

\* digits that are part of the word itself
DigitsIn(word) == IF word = "s3" THEN <<3>> ELSE <<>>

\* re.finditer(pattern, content_text): does the pattern match at mention m,
\* and what are the version components inside match.group()
Matches(pattern, m) ==
  /\ pattern.word = m.word
  /\ pattern.kind = "versioned" => m.version # <<>>

MatchedDigits(pattern, m) ==
  IF pattern.kind = "versioned" THEN m.version ELSE DigitsIn(m.word)

\* match.group() == pattern: only a metacharacter-free pattern equals its match
MatchEqualsPattern(pattern, m) == pattern.kind = "literal"

\* version_patterns in dict order: semantic_version, major_minor, major_only
\* (year_version and oracle_version need a digit, which major_only takes first)
_extract_version(digits) ==
  IF Len(digits) >= 3
  THEN ToString(digits[1]) \o "." \o ToString(digits[2]) \o "." \o ToString(digits[3])
  ELSE IF Len(digits) = 2
  THEN ToString(digits[1]) \o "." \o ToString(digits[2])
  ELSE IF Len(digits) = 1
  THEN ToString(digits[1])
  ELSE None

_categorize_technology(tech_name) ==
  IF tech_name \in {"python", "java", "javascript", "typescript", "php", "ruby", "go"}
  THEN "programming_language"
  ELSE IF tech_name \in {"react", "angular", "vue", "ember", "svelte"}
  THEN "frontend_framework"
  ELSE IF tech_name \in {"mysql", "postgresql", "mongodb", "oracle", "sqlserver"}
  THEN "database"
  ELSE IF tech_name \in {"docker", "kubernetes", "jenkins", "terraform"}
  THEN "infrastructure"
  ELSE IF tech_name \in {"aws", "azure", "gcp"} THEN "cloud_platform"
  ELSE "unknown"

\* confidence in hundredths
_calculate_confidence(pattern, m) ==
  LET base == 50
      c1 == IF pattern.has_digit THEN base + 20 ELSE base
      c2 == IF MatchEqualsPattern(pattern, m) THEN c1 + 20 ELSE c1
      c3 == IF m.keyword THEN c2 + 10 ELSE c2
  IN IF c3 > 100 THEN 100 ELSE c3

\* the version-specific advice for python; no general entry for python or aws
_generate_suggestions(tech_name, digits) ==
  IF tech_name = "python" /\ digits # <<>> /\ digits[1] = 2
  THEN <<"Consider upgrading to Python 3.9+ for continued support">>
  ELSE <<>>

\* the detection dedup key: f"{name}_{version or 'no_version'}"
DedupKeyWithLine(d) ==
  d.technology.name \o "_" \o (IF d.technology.version = None THEN "no_version"
                               ELSE d.technology.version) \o "_" \o ToString(d.line_number)
DedupKey(d) ==
  d.technology.name \o "_" \o (IF d.technology.version = None THEN "no_version"
                               ELSE d.technology.version)

\* detection.confidence > unique_detections[key].confidence
ReplacesKeptIfLower(new, kept) == new.confidence < kept.confidence
ReplacesKept(new, kept) == new.confidence > kept.confidence

\* unique_detections as the list of its values in key insertion order
_deduplicate_detections(dets) ==
  LET RECURSIVE loop(_, _)
      loop(i, unique) ==
        IF i > Len(dets) THEN unique
        ELSE LET d == dets[i]
                 at == {k \in 1..Len(unique) : DedupKey(unique[k]) = DedupKey(d)}
             IN IF at = {}
                THEN loop(i + 1, Append(unique, d))
                ELSE LET k == CHOOSE k \in at : TRUE
                     IN IF ReplacesKept(d, unique[k])
                        THEN loop(i + 1, [unique EXCEPT ![k] = d])
                        ELSE loop(i + 1, unique)
  IN loop(1, <<>>)

\* the detections appended by the three nested loops, before deduplication
RawDetections(text) ==
  LET detection(t, p, pos) ==
        LET pattern == technology_patterns[t].patterns[p]
            tech_name == technology_patterns[t].tech
            digits == MatchedDigits(pattern, text[pos])
        IN [technology |-> [name |-> tech_name,
                            version |-> _extract_version(digits),
                            category |-> _categorize_technology(tech_name)],
            confidence |-> _calculate_confidence(pattern, text[pos]),
            line_number |-> pos,
            suggestions |-> _generate_suggestions(tech_name, digits)]
      RECURSIVE matches(_, _, _)
      matches(t, p, pos) ==
        IF pos > Len(text) THEN <<>>
        ELSE (IF Matches(technology_patterns[t].patterns[p], text[pos])
              THEN <<detection(t, p, pos)>> ELSE <<>>) \o matches(t, p, pos + 1)
      RECURSIVE pats(_, _)
      pats(t, p) ==
        IF p > Len(technology_patterns[t].patterns) THEN <<>>
        ELSE matches(t, p, 1) \o pats(t, p + 1)
      RECURSIVE techs(_)
      techs(t) ==
        IF t > Len(technology_patterns) THEN <<>>
        ELSE pats(t, 1) \o techs(t + 1)
  IN techs(1)

analyze_technology_stack(text) == _deduplicate_detections(RawDetections(text))

\* A pattern a caller adds to technology_patterns under a name of its own:
\* none, one that matches nothing in the texts, and one that re cannot
\* compile ("(": re.error "missing ), unterminated subpattern").
AddedSignatures == {None, "cobol", "("}

\* analyze_technology_stack with the added signature in the table.  The
\* loop calls re.finditer for every pattern of every signature; the one
\* try block encloses the whole loop, and its handler returns [].
analyze_with_signature(text, signature) ==
  IF signature = "(" THEN <<>> ELSE analyze_technology_stack(text)

\* ------------------------------------------------------------------
\* Modernization suggestions: TechnologyModernizer (technology_modernizer.py)
\* ------------------------------------------------------------------

\* The content handed to analyze_content is a sequence of words separated by
\* blanks: a technology name, alone or written as "jquery: 1.8.0" / "grunt = 2".
Words ==
  [tech : {"jquery", "grunt", "react"}, version : {<<>>}]
  \cup {[tech |-> "jquery", version |-> <<1, 8, 0>>], [tech |-> "grunt", version |-> <<2>>]}

MappingKeys ==
  {"jquery", "backbone.js", "bootstrap 3", "mysql 5.6", "python 2.7", "apache 2.2", "grunt", "qunit"}

\* _load_technology_mappings: default_suggestion and complexity of each key
technology_mappings ==
  [k \in MappingKeys |->
     CASE k = "jquery" -> [default_suggestion |-> "React", complexity |-> "medium"]
       [] k = "backbone.js" -> [default_suggestion |-> "React", complexity |-> "high"]
       [] k = "bootstrap 3" -> [default_suggestion |-> "Bootstrap 5", complexity |-> "low"]
       [] k = "mysql 5.6" -> [default_suggestion |-> "MySQL 8.0", complexity |-> "medium"]
       [] k = "python 2.7" -> [default_suggestion |-> "Python 3.11", complexity |-> "high"]
       [] k = "apache 2.2" -> [default_suggestion |-> "Apache 2.4", complexity |-> "medium"]
       [] k = "grunt" -> [default_suggestion |-> "Vite", complexity |-> "medium"]
       [] k = "qunit" -> [default_suggestion |-> "Jest", complexity |-> "low"]]

\* tech_patterns in dict order, for the names whose \bname\b pattern a word
\* of Words can match; lower is tech_name.lower()
tech_patterns ==
  << [name |-> "jQuery", lower |-> "jquery"],
     [name |-> "React", lower |-> "react"],
     [name |-> "Grunt", lower |-> "grunt"] >>

\* the first n components of a version, joined by dots
DottedVersion(digits, n) ==
  IF n = 3 THEN ToString(digits[1]) \o "." \o ToString(digits[2]) \o "." \o ToString(digits[3])
  ELSE IF n = 2 THEN ToString(digits[1]) \o "." \o ToString(digits[2])
  ELSE ToString(digits[1])

MinOf(S) == CHOOSE x \in S : \A y \in S : x <= y

\* TechnologyModernizer._extract_version: the patterns tied to the technology
\* name (x.y.z, then x.y, then x), then the first x.y.z anywhere in the
\* content; re.search yields the leftmost match of the first pattern that hits
TechnologyModernizer_extract_version(text, tech_name) ==
  LET own(n) == {i \in 1..Len(text) : text[i].tech = tech_name /\ Len(text[i].version) >= n}
      anywhere == {i \in 1..Len(text) : Len(text[i].version) >= 3}
  IN IF own(3) # {} THEN DottedVersion(text[MinOf(own(3))].version, 3)
     ELSE IF own(2) # {} THEN DottedVersion(text[MinOf(own(2))].version, 2)
     ELSE IF own(1) # {} THEN DottedVersion(text[MinOf(own(1))].version, 1)
     ELSE IF anywhere # {} THEN DottedVersion(text[MinOf(anywhere)].version, 3)
     ELSE ""

\* _detect_technologies: one entry per technology whose pattern occurs
_detect_technologies(text) ==
  LET count(t) == Cardinality({i \in 1..Len(text) : text[i].tech = tech_patterns[t].lower})
      RECURSIVE loop(_)
      loop(t) ==
        IF t > Len(tech_patterns) THEN <<>>
        ELSE (IF count(t) > 0
              THEN << [name |-> tech_patterns[t].name,
                       lower |-> tech_patterns[t].lower,
                       version |-> TechnologyModernizer_extract_version(text, tech_patterns[t].lower),
                       patterns_matched |-> count(t)] >>
              ELSE <<>>) \o loop(t + 1)
  IN loop(1)

\* TechnologyModernizer._calculate_confidence, in hundredths
TechnologyModernizer_calculate_confidence(tech_name, version) ==
  LET base == IF tech_name \in {"jquery", "python 2.7", "bootstrap 3"} THEN 90 ELSE 70
      c == IF version # "" THEN base + 10 ELSE base
  IN IF c > 100 THEN 100 ELSE c

\* _calculate_impact_score, in hundredths
_calculate_impact_score(tech_info) ==
  LET mentions == IF tech_info.patterns_matched * 10 > 30 THEN 30
                  ELSE tech_info.patterns_matched * 10
      deprecated == IF tech_info.lower \in {"jquery", "python 2.7", "bootstrap 3", "grunt", "backbone.js"}
                    THEN 30 ELSE 0
      security == IF tech_info.lower \in {"mysql", "postgresql", "oracle", "apache", "nginx"}
                  THEN 20 ELSE 0
      score == 50 + mentions + deprecated + security
  IN IF score > 100 THEN 100 ELSE score

\* _determine_priority; python27 is ("python 2.7" in old_tech.lower())
_determine_priority(python27, impact_score) ==
  IF python27 \/ impact_score > 80 THEN "critical"
  ELSE IF impact_score > 60 THEN "high"
  ELSE IF impact_score > 40 THEN "medium"
  ELSE "low"

_estimate_effort(complexity, impact_score) ==
  LET base_effort == CASE complexity = "low" -> "1-2 days"
                       [] complexity = "medium" -> "1-2 weeks"
                       [] complexity = "high" -> "2-4 weeks"
                       [] OTHER -> "1-2 weeks"
  IN IF impact_score > 80
     THEN (IF base_effort = "1-2 days" THEN "1-2 weeks"
           ELSE IF base_effort = "1-2 weeks" THEN "2-4 weeks"
           ELSE base_effort)
     ELSE base_effort

\* _generate_modernization_suggestion, without the original / rewritten text
_generate_modernization_suggestion(content_id, tech_mapping, tech_info) ==
  LET impact_score == _calculate_impact_score(tech_info)
      python27 == tech_info.lower = "python" /\ tech_info.version = "2.7"
  IN [content_id |-> content_id,
      technology_mappings |-> <<tech_mapping>>,
      impact_score |-> impact_score,
      priority |-> _determine_priority(python27, impact_score),
      estimated_effort |-> _estimate_effort(tech_mapping.migration_complexity, impact_score)]

\* tuple comparison of two-component sort keys
KeyLess(a, b) == a[1] < b[1] \/ (a[1] = b[1] /\ a[2] < b[2])

\* list.sort(key=..., reverse=True): descending by key, equal keys keep
\* their order; keys[i] is the key of seq[i]
SortReverse(seq, keys) ==
  LET RECURSIVE loop(_, _)
      loop(i, order) ==
        IF i > Len(seq) THEN order
        ELSE LET smaller == {k \in 1..Len(order) : KeyLess(keys[order[k]], keys[i])}
                 p == IF smaller = {} THEN Len(order) + 1 ELSE MinOf(smaller)
             IN loop(i + 1, SubSeq(order, 1, p - 1) \o <<i>> \o SubSeq(order, p, Len(order)))
      order == loop(1, <<>>)
  IN [k \in 1..Len(seq) |-> seq[order[k]]]

priority_rank == [critical |-> 4, high |-> 3, medium |-> 2, low |-> 1]

\* the sort key of analyze_content: (rank of priority, impact_score)
ImpactKey(x) == <<priority_rank[x.priority], x.impact_score>>

\* TechnologyModernizer.analyze_content
TechnologyModernizer_analyze_content(text, content_id) ==
  LET detected_technologies == _detect_technologies(text)
      RECURSIVE loop(_)
      loop(i) ==
        IF i > Len(detected_technologies) THEN <<>>
        ELSE LET tech_info == detected_technologies[i]
                 tech_name == tech_info.lower
                 version == tech_info.version
             IN (IF tech_name \in MappingKeys
                 THEN LET mapping_info == technology_mappings[tech_name]
                          tech_mapping ==
                            [old_tech |-> IF version = "" THEN tech_info.name
                                          ELSE tech_info.name \o " " \o version,
                             new_tech |-> mapping_info.default_suggestion,
                             confidence |-> TechnologyModernizer_calculate_confidence(tech_name, version),
                             migration_complexity |-> mapping_info.complexity]
                      IN << _generate_modernization_suggestion(content_id, tech_mapping, tech_info) >>
                 ELSE <<>>) \o loop(i + 1)
      found == loop(1)
  IN SortReverse(found, [i \in 1..Len(found) |-> ImpactKey(found[i])])

\* ------------------------------------------------------------------
\* Content enhancements: EnhancementEngine (enhancement_engine.py)
\* ------------------------------------------------------------------

\* what a chat-completion call does: it returns text or it raises
LlmOutcomes == {"reply", "error"}

\* _analyze_content_quality: the fixed issue dict (in key order) once the
\* call returned, {} when it raised; confidence in hundredths
_analyze_content_quality(llm) ==
  IF llm = "error" THEN <<>>
  ELSE << [issue_type |-> "readability",
           issues |-> << [description |-> "Complex sentence structure detected",
                          priority |-> "medium", confidence |-> 80] >>],
          [issue_type |-> "structure",
           issues |-> << [description |-> "Inconsistent heading hierarchy",
                          priority |-> "high", confidence |-> 90] >>],
          [issue_type |-> "clarity", issues |-> <<>>],
          [issue_type |-> "consistency", issues |-> <<>>],
          [issue_type |-> "completeness", issues |-> <<>>] >>

_generate_enhanced_content(llm) == IF llm = "error" THEN "" ELSE "improved text"

\* the fields EnhancementMetrics declares without a default
EnhancementMetricsRequired ==
  {"content_id", "original_word_count", "enhanced_word_count", "tables_found",
   "visualizations_created", "processes_identified", "diagrams_created",
   "outdated_technologies", "modernization_suggestions", "broken_links_found",
   "links_fixed", "readability_score_before", "readability_score_after",
   "enhancement_score"}

\* EnhancementMetrics(**fields): validation fails when a required field is absent
EnhancementMetrics(fields) ==
  IF EnhancementMetricsRequired \subseteq DOMAIN fields THEN fields
  ELSE Raised("ValidationError")

_calculate_enhancement_metrics(issue) ==
  EnhancementMetrics([readability_score |-> 7500 + issue.confidence * 20,
                      improvement_percentage |-> issue.confidence,
                      estimated_time_to_implement |-> 5])

\* _create_enhancement_for_issue: the enhancement as a one-element list,
\* the empty list for None
_create_enhancement_for_issue(issue_type, issue, llm) ==
  LET enhanced_content == _generate_enhanced_content(llm)
      metrics == _calculate_enhancement_metrics(issue)
  IN IF enhanced_content = "" THEN <<>>
     ELSE IF IsRaised(metrics) THEN <<>>
     ELSE << [title |-> "Improve " \o issue_type \o ": " \o issue.description,
              priority |-> issue.priority,
              category |-> issue_type,
              enhanced_content |-> enhanced_content,
              confidence |-> issue.confidence,
              metrics |-> metrics] >>

\* the sort key of generate_enhancements: (priority == 'high', confidence)
ConfidenceKey(x) == <<IF x.priority = "high" THEN 1 ELSE 0, x.confidence>>

\* EnhancementEngine.generate_enhancements; llm_analysis and llm_rewrite are
\* the outcomes of the analysis call and of the per-issue rewrite calls
generate_enhancements(llm_analysis, llm_rewrite) ==
  LET analysis == _analyze_content_quality(llm_analysis)
      RECURSIVE per_issue(_, _)
      per_issue(a, i) ==
        IF i > Len(analysis[a].issues) THEN <<>>
        ELSE _create_enhancement_for_issue(analysis[a].issue_type, analysis[a].issues[i], llm_rewrite)
             \o per_issue(a, i + 1)
      RECURSIVE types(_)
      types(a) == IF a > Len(analysis) THEN <<>> ELSE per_issue(a, 1) \o types(a + 1)
      found == types(1)
  IN SortReverse(found, [i \in 1..Len(found) |-> ConfidenceKey(found[i])])

\* ------------------------------------------------------------------
\* Documents served by the wiki collaborator
\* ------------------------------------------------------------------

PageUrls == {"wiki/guide", "wiki/notes", "wiki/legacy", "wiki/missing"}

\* What the Confluence client yields for a page URL: nothing, or a title,
\* the text (its measures and the number of numbered steps it lists), the
\* heading list and the parsed markup.  In wiki/legacy a heading lacks its
\* 'level' and the markup object is not a parse tree.
Wiki ==
  [u \in PageUrls |->
     CASE u = "wiki/guide" ->
            [found |-> TRUE, title |-> "Guide",
             raw_text |-> [words |-> 40, chars |-> 230, sentences |-> 5, numbered_steps |-> 3,
                          complex_words |-> 8, transitions |-> 0, newlines |-> 4,
                          heading_words |-> <<>>, star_bullets |-> 0, dash_bullets |-> 0,
                          paragraphs |-> <<28, 12>>],
             headings |-> << [level |-> 1, text |-> "Guide"], [level |-> 3, text |-> "Steps"] >>,
             soup |-> "tables"]
       [] u = "wiki/notes" ->
            [found |-> TRUE, title |-> "Notes",
             raw_text |-> [words |-> 6, chars |-> 31, sentences |-> 2, numbered_steps |-> 0,
                          complex_words |-> 1, transitions |-> 0, newlines |-> 0,
                          heading_words |-> <<>>, star_bullets |-> 0, dash_bullets |-> 0,
                          paragraphs |-> <<6>>],
             headings |-> <<>>,
             soup |-> None]
       [] u = "wiki/legacy" ->
            [found |-> TRUE, title |-> "Legacy",
             raw_text |-> [words |-> 12, chars |-> 70, sentences |-> 3, numbered_steps |-> 0,
                          complex_words |-> 2, transitions |-> 0, newlines |-> 0,
                          heading_words |-> <<>>, star_bullets |-> 0, dash_bullets |-> 0,
                          paragraphs |-> <<12>>],
             headings |-> << [text |-> "Intro"] >>,
             soup |-> "malformed"]
       [] u = "wiki/missing" ->
            [found |-> FALSE, title |-> "", 
             raw_text |-> [words |-> 0, chars |-> 0, sentences |-> 1, numbered_steps |-> 0,
                          complex_words |-> 0, transitions |-> 0, newlines |-> 0,
                          heading_words |-> <<>>, star_bullets |-> 0, dash_bullets |-> 0,
                          paragraphs |-> <<0>>],
             headings |-> <<>>,
             soup |-> None]]

\* a function returning None instead of a document
NoContent == [absent |-> TRUE]
IsAbsent(v) == "absent" \in DOMAIN v

\* JSON null in a response
Null == [null |-> TRUE]
IsNull(v) == "null" \in DOMAIN v

\* ------------------------------------------------------------------
\* Orchestrator of main.py: POST /analysis/analyze
\* ------------------------------------------------------------------

\* ContentExtractor.extract_from_url: the ContentModel is built without a
\* content_id, which therefore keeps its default None
extract_from_url(page_url) ==
  IF ~Wiki[page_url].found THEN NoContent
  ELSE [content_id |-> None,
        page_url |-> page_url,
        title |-> Wiki[page_url].title,
        raw_text |-> Wiki[page_url].raw_text,
        metadata |-> [structure |-> [headings |-> Wiki[page_url].headings]]]

\* AnalysisResult(...): content_id is a required str, confidence_score lies
\* in [0, 1] (hundredths here)
AnalysisResult(content_id, analysis_type, results, confidence_score) ==
  IF content_id = None \/ confidence_score < 0 \/ confidence_score > 100
  THEN Raised("ValidationError")
  ELSE [content_id |-> content_id, analysis_type |-> analysis_type,
        results |-> results, confidence_score |-> confidence_score]

\* results={} of a default AnalysisResult
EmptyDict == [k \in {} |-> TRUE]

\* _analyze_heading_hierarchy; structure_score in hundredths
_analyze_heading_hierarchy(headings) ==
  IF headings = <<>>
  THEN [issues |-> <<"No headings found">>, structure_score |-> 30]
  ELSE IF \E i \in 1..Len(headings) : "level" \notin DOMAIN headings[i]
  THEN Raised("KeyError")
  ELSE LET prev(i) == IF i = 1 THEN 0 ELSE headings[i - 1].level
           jumps == {i \in 1..Len(headings) : headings[i].level > prev(i) + 1}
           RECURSIVE issues_from(_)
           issues_from(i) ==
             IF i > Len(headings) THEN <<>>
             ELSE (IF i \in jumps
                   THEN << "Heading level jump: H" \o ToString(prev(i)) \o " to H"
                           \o ToString(headings[i].level) >>
                   ELSE <<>>) \o issues_from(i + 1)
           score == 100 - 10 * Cardinality(jumps)
       IN [issues |-> issues_from(1),
           structure_score |-> IF score < 0 THEN 0 ELSE score,
           heading_count |-> Len(headings),
           max_level |-> CHOOSE m \in {headings[i].level : i \in 1..Len(headings)} :
                           \A i \in 1..Len(headings) : headings[i].level <= m]

\* ContentAnalyzer.analyze_content_structure: the flow and readability
\* entries are carried by the text measures they are computed from
analyze_content_structure(content_model) ==
  LET structure == Get(content_model.metadata, "structure", EmptyDict)
      headings == Get(structure, "headings", <<>>)
      hierarchy_analysis == _analyze_heading_hierarchy(headings)
      body == IF IsRaised(hierarchy_analysis) THEN hierarchy_analysis
              ELSE AnalysisResult(content_model.content_id, "content_structure",
                                  [hierarchy |-> hierarchy_analysis,
                                   flow |-> [sentence_count |-> content_model.raw_text.sentences],
                                   readability |-> [total_words |-> content_model.raw_text.words],
                                   word_count |-> content_model.raw_text.words,
                                   heading_count |-> Len(headings)],
                                  80)
  IN IF IsRaised(body)
     THEN AnalysisResult(content_model.content_id, "content_structure", EmptyDict, 0)
     ELSE body

\* min(10.0, max(0.0, score)), scores in thousandths
ClampScoreFloorOnly(score) == IF score < 0 THEN 0 ELSE score
ClampScore(score) == IF score > 10000 THEN 10000 ELSE IF score < 0 THEN 0 ELSE score

\* _calculate_clarity_score, in thousandths (rounded down).  text.split('.')
\* is never empty, so only a text without words returns early; no statement
\* of the try block raises on a str.
_calculate_clarity_score(text) ==
  IF text.words = 0 THEN 0
  ELSE LET longer == 35000 * text.sentences - 1000 * text.words
           sentence_score == IF longer < 0 THEN 0 ELSE longer \div (2 * text.sentences)
           complexity == 10000 - (20000 * text.complex_words) \div text.words
           complexity_score == IF complexity < 0 THEN 0 ELSE complexity
           transition_score == IF 2000 * text.transitions > 10000 THEN 10000
                               ELSE 2000 * text.transitions
       IN ClampScore((sentence_score + complexity_score + transition_score) \div 3)

\* _calculate_completeness_score, in thousandths.  An entry of the structure
\* metadata is a count ([count |-> n]) or a list of items ([items |-> ...]);
\* comparing a list with 0 raises TypeError, which the except clause turns
\* into 5.0.
_calculate_completeness_score(content_model) ==
  LET structure == Get(content_model.metadata, "structure", EmptyDict)
      headings == Get(structure, "headings", <<>>)
      entry(key) == Get(structure, key, [count |-> 0])
      raises == \E key \in {"lists", "tables", "links"} : "count" \notin DOMAIN entry(key)
      present(key) == IF entry(key).count > 0 THEN 500 ELSE 0
      word_count == content_model.raw_text.words
      score == 5000
               + (IF content_model.title # "" THEN 1000 ELSE 0)
               + (IF Len(headings) >= 2 THEN 1500 ELSE IF Len(headings) >= 1 THEN 1000 ELSE 0)
               + (IF word_count >= 500 THEN 1500 ELSE IF word_count >= 200 THEN 1000
                  ELSE IF word_count >= 100 THEN 500 ELSE 0)
               + present("lists") + present("tables") + present("links")
  IN IF raises THEN 5000 ELSE ClampScore(score)

\* _calculate_consistency_score, in thousandths.  np.var(x) < 4 and
\* np.var(x) < np.mean(x) are decided on n * sum(x^2) - sum(x)^2.
_calculate_consistency_score(text) ==
  LET RECURSIVE Sum(_)
      Sum(xs) == IF xs = <<>> THEN 0 ELSE Head(xs) + Sum(Tail(xs))
      Squares(xs) == [i \in 1..Len(xs) |-> xs[i] * xs[i]]
      Spread(xs) == Len(xs) * Sum(Squares(xs)) - Sum(xs) * Sum(xs)
      heading_styles == text.heading_words
      headings_bonus == IF Len(heading_styles) > 1
                        THEN IF Spread(heading_styles) < 4 * Len(heading_styles) * Len(heading_styles)
                             THEN 1500 ELSE 500
                        ELSE 0
      pattern_counts == <<text.star_bullets, text.dash_bullets, text.numbered_steps>>
      dominant_pattern == CHOOSE m \in {pattern_counts[i] : i \in 1..3} :
                            \A i \in 1..3 : pattern_counts[i] <= m
      other_patterns == Sum(pattern_counts) - dominant_pattern
      format_bonus == IF other_patterns = 0 /\ dominant_pattern > 0 THEN 2000
                      ELSE IF 2 * other_patterns < dominant_pattern THEN 1000
                      ELSE 0
      para_lengths == SelectSeq(text.paragraphs, LAMBDA n : n > 0)
      paragraph_bonus == IF Len(text.paragraphs) > 2 /\ para_lengths # <<>>
                         THEN IF Spread(para_lengths) < Len(para_lengths) * Sum(para_lengths)
                              THEN 1500 ELSE 500
                         ELSE 0
  IN ClampScore(5000 + headings_bonus + format_bonus + paragraph_bonus)

\* the suggestions of _fallback_quality_analysis
_fallback_quality_analysis(text) ==
  (IF text.words < 100
   THEN <<"Content appears too short - consider adding more detail">> ELSE <<>>)
  \o (IF text.words > 25 * text.sentences
      THEN <<"Sentences are quite long - consider breaking them down for better readability">>
      ELSE <<>>)
  \o (IF 50 * text.newlines < text.words
      THEN <<"Consider adding more paragraphs and line breaks for better structure">>
      ELSE <<>>)

\* what the language model call of _ai_content_quality_analysis yields: no
\* client or a failed call (the rule-based fallback), a JSON object, or JSON
\* that is not an object
QualityLlmOutcomes == {"fallback", "json_object", "json_list"}

\* ContentAnalyzer.analyze_content_quality: quality_analysis.get fails on JSON
\* that is not an object; scores in thousandths, confidence in hundredths
analyze_content_quality(content_model, llm) ==
  LET text == content_model.raw_text
      clarity_score == _calculate_clarity_score(text)
      completeness_score == _calculate_completeness_score(content_model)
      consistency_score == _calculate_consistency_score(text)
      body == IF llm = "json_list" THEN Raised("AttributeError")
              ELSE AnalysisResult(content_model.content_id, "content_quality",
                                  [clarity_score |-> clarity_score,
                                   completeness_score |-> completeness_score,
                                   consistency_score |-> consistency_score,
                                   improvement_suggestions |->
                                     IF llm = "json_object" THEN <<"suggestion of the model">>
                                     ELSE _fallback_quality_analysis(text),
                                   overall_score |-> (3 * clarity_score + 3 * completeness_score
                                                      + 4 * consistency_score) \div 10],
                                  85)
  IN IF IsRaised(body)
     THEN AnalysisResult(content_model.content_id, "content_quality", EmptyDict, 0)
     ELSE body

\* _ai_content_quality_analysis once the service has answered the pending
\* call: a failed or timed-out call raises inside the try block and the
\* handler returns the rule-based analysis; the call is not repeated.
_ai_content_quality_analysis_retrying(call, outcome) ==
  IF outcome \in {"failed", "timed_out"}
  THEN IF call.calls < 2
       THEN [call EXCEPT !.calls = @ + 1]
       ELSE [call EXCEPT !.op = "quality", !.llm = "fallback", !.outcome = outcome]
  ELSE [call EXCEPT !.op = "quality", !.llm = outcome, !.outcome = outcome]
_ai_content_quality_analysis(call, outcome) ==
  IF outcome \in {"failed", "timed_out"}
  THEN [call EXCEPT !.op = "quality", !.llm = "fallback", !.outcome = outcome]
  ELSE [call EXCEPT !.op = "quality", !.llm = outcome, !.outcome = outcome]

\* an HTTPException leaving a handler
HTTPException(status_code, detail) == [status |-> status_code, detail |-> detail]

\* main.py analyze_content: the response of POST /analysis/analyze
analyze_content(analysis_request, available, llm, clock) ==
  LET page_url == analysis_request.page_url
      options == analysis_request.analysis_options
      extracted == extract_from_url(page_url)
      results == [title |-> extracted.title,
                  word_count |-> extracted.raw_text.words,
                  character_count |-> extracted.raw_text.chars,
                  status |-> "analyzed",
                  basic_metrics |-> [has_content |-> extracted.raw_text.chars > 0,
                                     content_length |-> extracted.raw_text.chars,
                                     metadata_available |-> TRUE]]
      structure_analysis == analyze_content_structure(extracted)
      with_structure ==
        IF available.content_analyzer /\ Get(options, "structure_analysis", TRUE)
           /\ ~IsRaised(structure_analysis)
        THEN results @@ ("structure" :> structure_analysis.results)
        ELSE results
      quality_analysis == analyze_content_quality(extracted, llm)
      with_quality ==
        IF available.content_analyzer /\ Get(options, "quality_analysis", TRUE)
           /\ ~IsRaised(quality_analysis)
        THEN with_structure @@ ("quality" :> quality_analysis.results)
        ELSE with_structure
  IN IF ~available.content_extractor
     THEN HTTPException(503, "Content extractor not available")
     ELSE IF IsAbsent(extracted)
     THEN HTTPException(404, "Failed to extract content")
     ELSE [status |-> 200,
           body |-> [content_id |-> "content_" \o ToString(clock),
                     url |-> page_url,
                     analysis |-> with_quality,
                     timestamp |-> ToString(clock)]]

\* the page URLs a client posts to /analysis/extract: the wiki's pages and
\* an address outside atlassian.net
ExtractUrls == PageUrls \cup {"example.org/page"}

\* main.py extract_content: the response of POST /analysis/extract.  The
\* three HTTPExceptions are raised inside the try block, whose only handler
\* is `except Exception`, which raises HTTPException(500, str(e)).
extract_content(analysis_request, available) ==
  LET page_url == analysis_request.page_url
      extracted == extract_from_url(page_url)
      e == IF page_url \notin PageUrls
           THEN HTTPException(400, "Invalid Confluence URL")
           ELSE IF ~available.content_extractor
           THEN HTTPException(503, "Content extractor not available")
           ELSE IF IsAbsent(extracted)
           THEN HTTPException(404, "Failed to extract content from URL")
           ELSE Null
  IN IF ~IsNull(e)
     THEN HTTPException(500, ToString(e.status) \o ": " \o e.detail)
     ELSE [status |-> 200,
           body |-> [content_id |-> extracted.content_id,
                     title |-> extracted.title,
                     status |-> "extracted",
                     metadata |-> [word_count |-> extracted.raw_text.words,
                                   url |-> page_url]]]

\* ------------------------------------------------------------------
\* Structure optimizer: StructureOptimizer (structure_optimizer.py)
\* ------------------------------------------------------------------

MaxHeadings == 3

\* the headings of a page: h1 .. h6 with a text, or an entry without 'level'
HeadingInputs == {[level |-> l, text |-> "Heading"] : l \in 1..6} \cup {[text |-> "Heading"]}

\* the loop with prev_level taken from the heading as it came in
_fix_heading_hierarchy_from_original(headings) ==
  IF headings = <<>>
  THEN [fixed_headings |-> <<>>, fixes |-> <<>>]
  ELSE IF \E i \in 1..Len(headings) : "level" \notin DOMAIN headings[i]
  THEN Raised("KeyError")
  ELSE LET RECURSIVE loop(_, _, _, _)
           loop(i, prev_level, fixed_headings, fixes) ==
             IF i > Len(headings)
             THEN [fixed_headings |-> fixed_headings, fixes |-> fixes]
             ELSE LET heading == headings[i]
                      current_level == heading.level
                      new_level == prev_level + 1
                      jump == current_level > prev_level + 1
                      appended == IF jump
                                  THEN Append(fixed_headings, [heading EXCEPT !.level = new_level])
                                  ELSE Append(fixed_headings, heading)
                  IN loop(i + 1, current_level, appended,
                          IF jump
                          THEN Append(fixes, "Fixed heading level jump: H" \o ToString(current_level)
                                             \o " -> H" \o ToString(new_level))
                          ELSE fixes)
       IN loop(1, 0, <<>>, <<>>)

\* StructureOptimizer._fix_heading_hierarchy: heading['level'] raises
\* KeyError on an entry without it; prev_level follows the fixed list
_fix_heading_hierarchy(headings) ==
  IF headings = <<>>
  THEN [fixed_headings |-> <<>>, fixes |-> <<>>]
  ELSE IF \E i \in 1..Len(headings) : "level" \notin DOMAIN headings[i]
  THEN Raised("KeyError")
  ELSE LET RECURSIVE loop(_, _, _, _)
           loop(i, prev_level, fixed_headings, fixes) ==
             IF i > Len(headings)
             THEN [fixed_headings |-> fixed_headings, fixes |-> fixes]
             ELSE LET heading == headings[i]
                      current_level == heading.level
                      new_level == prev_level + 1
                      jump == current_level > prev_level + 1
                      appended == IF jump
                                  THEN Append(fixed_headings, [heading EXCEPT !.level = new_level])
                                  ELSE Append(fixed_headings, heading)
                  IN loop(i + 1, appended[Len(appended)].level, appended,
                          IF jump
                          THEN Append(fixes, "Fixed heading level jump: H" \o ToString(current_level)
                                             \o " -> H" \o ToString(new_level))
                          ELSE fixes)
       IN loop(1, 0, <<>>, <<>>)

\* ------------------------------------------------------------------
\* Orchestrator of enhanced_analysis.py: POST /analyze
\* ------------------------------------------------------------------

\* _extract_confluence_content
_extract_confluence_content(confluence_url) ==
  IF ~Wiki[confluence_url].found THEN NoContent
  ELSE [title |-> Wiki[confluence_url].title,
        raw_text |-> Wiki[confluence_url].raw_text,
        soup |-> Wiki[confluence_url].soup]

\* TableProcessor.extract_and_analyze_tables: find_all fails on an object
\* that is not a parse tree; every table found raises AttributeError at
\* self._extract_table_data, which the class does not define, and is skipped
extract_and_analyze_tables(soup) ==
  IF soup = "malformed" THEN Raised("AttributeError")
  ELSE [value |-> <<>>]

\* the potential accumulated over the processed tables
RECURSIVE TotalVisualizationPotential(_, _)
TotalVisualizationPotential(processed_tables, total) ==
  IF processed_tables = <<>> THEN total
  ELSE LET table_data == Head(processed_tables)
           table_potential == IF table_data.valid THEN table_data.visualization_potential
                              ELSE "low"
           next == IF table_potential = "high" THEN "high"
                   ELSE IF table_potential = "medium" /\ total # "high" THEN "medium"
                   ELSE total
       IN TotalVisualizationPotential(Tail(processed_tables), next)

RECURSIVE Flatten(_)
Flatten(seqs) == IF seqs = <<>> THEN <<>> ELSE Head(seqs) \o Flatten(Tail(seqs))

_perform_table_analysis(content_data) ==
  LET soup == content_data.soup
      extracted == extract_and_analyze_tables(soup)
      processed_tables == extracted.value
      valid_tables == SelectSeq(processed_tables, LAMBDA t : t.valid)
  IN IF soup = None
     THEN [table_count |-> 0, processed_tables |-> <<>>,
           dashboard_suggestions |-> <<>>, visualization_potential |-> "none"]
     ELSE IF IsRaised(extracted)
     THEN [table_count |-> 0, processed_tables |-> <<>>,
           dashboard_suggestions |-> <<>>, visualization_potential |-> "error"]
     ELSE [table_count |-> Len(processed_tables),
           processed_tables |-> processed_tables,
           dashboard_suggestions |->
             Flatten([i \in 1..Len(valid_tables) |-> valid_tables[i].visualization_suggestions]),
           visualization_potential |-> TotalVisualizationPotential(processed_tables, "low")]

\* _generate_dashboards: one dashboard per valid table that has suggestions
\* and data
_generate_dashboards(processed_tables) ==
  LET RECURSIVE loop(_)
      loop(i) ==
        IF i > Len(processed_tables) THEN <<>>
        ELSE LET table_data == processed_tables[i]
             IN (IF table_data.valid /\ table_data.visualization_suggestions # <<>>
                    /\ table_data.headers # <<>> /\ table_data.rows # <<>>
                 THEN << [table_index |-> i - 1, source_table |-> table_data.headers,
                          chart_count |-> Len(table_data.visualization_suggestions)] >>
                 ELSE <<>>) \o loop(i + 1)
  IN loop(1)

\* ConceptProcessor.identify_concepts_and_processes: three or more numbered
\* steps make one process, which gets one flowchart suggestion
identify_concepts_and_processes(content_data) ==
  IF content_data.raw_text.numbered_steps >= 3
  THEN LET process == [name |-> "Numbered Process",
                       steps |-> content_data.raw_text.numbered_steps,
                       diagram_type |-> "flowchart"]
       IN [identified_concepts |-> [processes |-> <<process>>],
           total_count |-> 1,
           diagram_suggestions |-> << [type |-> "flowchart", priority |-> "high"] >>]
  ELSE [identified_concepts |-> EmptyDict, total_count |-> 0, diagram_suggestions |-> <<>>]

\* ConceptProcessor.generate_process_diagrams
generate_process_diagrams(processes) ==
  [i \in 1..Len(processes) |-> [type |-> "flowchart", format |-> "mermaid",
                                title |-> processes[i].name]]

_perform_concept_analysis(content_data) ==
  LET concept_results == identify_concepts_and_processes(content_data)
      identified_concepts == concept_results.identified_concepts
  IN [identified_concepts |-> identified_concepts,
      total_concept_count |-> concept_results.total_count,
      diagram_suggestions |-> concept_results.diagram_suggestions,
      generated_diagrams |-> IF "processes" \in DOMAIN identified_concepts
                             THEN generate_process_diagrams(identified_concepts.processes)
                             ELSE <<>>]

\* ModernizationEngine.analyze_and_modernize_content: building the analysis
\* dict calls self._generate_best_practices, which the class does not
\* define; the AttributeError is caught and the error dict returned
analyze_and_modernize_content(content_data) ==
  [error |-> "AttributeError", outdated_technologies |-> <<>>, modernization_suggestions |-> <<>>]

_perform_modernization_analysis(content_data) ==
  LET modernization_results == analyze_and_modernize_content(content_data)
  IN [outdated_technologies |-> Get(modernization_results, "outdated_technologies", <<>>),
      modernization_suggestions |-> Get(modernization_results, "modernization_suggestions", <<>>),
      implementation_roadmap |-> Get(modernization_results, "modernization_roadmap", EmptyDict),
      risk_assessment |-> Get(modernization_results, "risk_assessment", EmptyDict)]

\* the value a slot of response_data has when it is absent or null
Count(slot, field) == IF IsNull(slot) THEN 0 ELSE slot[field]
Length(slot, field) == IF IsNull(slot) THEN 0 ELSE Len(slot[field])

_generate_processing_summary(response_data) ==
  [total_processing_time |-> "calculated_in_background",
   content_analysis |-> [content_length |-> response_data.content_metadata.content_length,
                         analysis_completeness |-> "full"],
   table_processing |-> [tables_found |-> Count(response_data.table_analysis, "table_count"),
                         tables_processed |-> Length(response_data.table_analysis, "processed_tables"),
                         dashboards_generated |-> Len(response_data.generated_dashboards)],
   concept_extraction |-> [concepts_identified |->
                             Count(response_data.concept_analysis, "total_concept_count"),
                           diagrams_generated |->
                             Length(response_data.concept_analysis, "generated_diagrams")],
   modernization_analysis |-> [outdated_technologies_found |->
                                 Length(response_data.modernization_analysis, "outdated_technologies"),
                               suggestions_generated |->
                                 Length(response_data.modernization_analysis, "modernization_suggestions")]]

\* _generate_comprehensive_recommendations: appended in this order, not sorted
_generate_comprehensive_recommendations(response_data) ==
  LET tech_count == Length(response_data.modernization_analysis, "outdated_technologies")
      table_potential == IF IsNull(response_data.table_analysis) THEN "none"
                         ELSE response_data.table_analysis.visualization_potential
  IN (IF response_data.generated_dashboards # <<>>
      THEN << [type |-> "visualization", priority |-> "high"] >> ELSE <<>>)
     \o (IF Length(response_data.concept_analysis, "generated_diagrams") > 0
         THEN << [type |-> "documentation", priority |-> "medium"] >> ELSE <<>>)
     \o (IF tech_count > 0
         THEN << [type |-> "modernization",
                  priority |-> IF tech_count > 3 THEN "high" ELSE "medium"] >> ELSE <<>>)
     \o (IF table_potential \in {"medium", "high"}
         THEN << [type |-> "content_enhancement", priority |-> "medium"] >> ELSE <<>>)

\* enhanced_content_analysis: the response of POST /analyze.  The 404 is
\* raised inside the try block, whose handler turns every exception into 500.
enhanced_content_analysis(request, clock) ==
  LET options == request.analysis_options
      content_data == _extract_confluence_content(request.confluence_url)
      table_results == _perform_table_analysis(content_data)
      step1 == [analysis_id |-> "analysis_" \o ToString(clock),
                content_metadata |-> [title |-> content_data.title,
                                      url |-> request.confluence_url,
                                      content_length |-> content_data.raw_text.chars,
                                      analysis_timestamp |-> ToString(clock),
                                      analysis_options |-> options],
                table_analysis |-> IF Get(options, "table_analysis", TRUE)
                                   THEN table_results ELSE Null,
                generated_dashboards |->
                  IF Get(options, "table_analysis", TRUE)
                     /\ Get(options, "dashboard_generation", TRUE)
                     /\ table_results.processed_tables # <<>>
                  THEN _generate_dashboards(table_results.processed_tables) ELSE <<>>,
                concept_analysis |-> IF Get(options, "concept_extraction", TRUE)
                                     THEN _perform_concept_analysis(content_data) ELSE Null,
                modernization_analysis |-> IF Get(options, "modernization_analysis", TRUE)
                                           THEN _perform_modernization_analysis(content_data)
                                           ELSE Null]
      response_data == step1 @@ [processing_summary |-> _generate_processing_summary(step1),
                                 recommendations |-> _generate_comprehensive_recommendations(step1)]
  IN IF IsAbsent(content_data)
     THEN HTTPException(500, "Analysis failed: 404: Could not extract content from Confluence URL")
     ELSE [status |-> 200, body |-> response_data]

\* the requests a client sends: the default options, or one option switched off
AnalysisRequests ==
  [page_url : PageUrls,
   analysis_options : {[structure_analysis |-> TRUE, quality_analysis |-> TRUE,
                        table_analysis |-> TRUE, visualization_generation |-> TRUE,
                        modernization_analysis |-> TRUE],
                       [quality_analysis |-> FALSE]}]

EnhancedAnalysisRequests ==
  [confluence_url : PageUrls,
   analysis_options : {[table_analysis |-> TRUE, concept_extraction |-> TRUE,
                        modernization_analysis |-> TRUE, dashboard_generation |-> TRUE,
                        diagram_generation |-> TRUE],
                       [table_analysis |-> FALSE]}]

\* the module-level components of main.py after start-up: the imports and
\* constructors succeeded, failed after ContentExtractor, or failed altogether
ComponentSets ==
  {[content_extractor |-> TRUE, content_analyzer |-> TRUE],
   [content_extractor |-> TRUE, content_analyzer |-> FALSE],
   [content_extractor |-> FALSE, content_analyzer |-> FALSE]}

\* ------------------------------------------------------------------
\* Alternative suggester: AlternativeSuggester (alternative_suggester.py)
\* ------------------------------------------------------------------

MaxAltDetections == 2
MaxPlans == 2
MaxCandidates == 3
MaxAnalyses == 1

\* A ModernAlternative carries compatibility_score in hundredths and
\* community_support in tenths; benefits and documentation_quality are
\* read by no operation modelled here and are left out.
_load_alternatives_database ==
  ("python_2" :>
   << [name |-> "Python", version |-> "3.11+", category |-> "programming_language", migration_effort |-> "medium",
        migration_time |-> "2-4 months", compatibility_score |-> 80, learning_curve |-> "easy",
        community_support |-> 95, cost_impact |-> "similar"] >>)
  @@ ("java_8" :>
   << [name |-> "Java", version |-> "17 LTS", category |-> "programming_language", migration_effort |-> "low",
        migration_time |-> "1-2 months", compatibility_score |-> 95, learning_curve |-> "easy",
        community_support |-> 90, cost_impact |-> "similar"],
      [name |-> "Kotlin", version |-> "1.8+", category |-> "programming_language", migration_effort |-> "medium",
        migration_time |-> "3-6 months", compatibility_score |-> 90, learning_curve |-> "moderate",
        community_support |-> 85, cost_impact |-> "similar"] >>)
  @@ ("angular_1" :>
   << [name |-> "Angular", version |-> "15+", category |-> "frontend_framework", migration_effort |-> "high",
        migration_time |-> "6-12 months", compatibility_score |-> 30, learning_curve |-> "steep",
        community_support |-> 80, cost_impact |-> "similar"],
      [name |-> "React", version |-> "18+", category |-> "frontend_framework", migration_effort |-> "high",
        migration_time |-> "4-8 months", compatibility_score |-> 20, learning_curve |-> "moderate",
        community_support |-> 95, cost_impact |-> "similar"],
      [name |-> "Vue.js", version |-> "3+", category |-> "frontend_framework", migration_effort |-> "medium",
        migration_time |-> "3-6 months", compatibility_score |-> 40, learning_curve |-> "easy",
        community_support |-> 80, cost_impact |-> "similar"] >>)
  @@ ("react_15" :>
   << [name |-> "React", version |-> "18+", category |-> "frontend_framework", migration_effort |-> "low",
        migration_time |-> "1-3 months", compatibility_score |-> 80, learning_curve |-> "easy",
        community_support |-> 95, cost_impact |-> "similar"] >>)
  @@ ("mysql_5_5" :>
   << [name |-> "MySQL", version |-> "8.0+", category |-> "database", migration_effort |-> "low",
        migration_time |-> "2-4 weeks", compatibility_score |-> 95, learning_curve |-> "easy",
        community_support |-> 90, cost_impact |-> "similar"],
      [name |-> "PostgreSQL", version |-> "15+", category |-> "database", migration_effort |-> "medium",
        migration_time |-> "1-3 months", compatibility_score |-> 70, learning_curve |-> "moderate",
        community_support |-> 85, cost_impact |-> "similar"] >>)
  @@ ("oracle_11g" :>
   << [name |-> "Oracle Database", version |-> "19c+", category |-> "database", migration_effort |-> "medium",
        migration_time |-> "2-4 months", compatibility_score |-> 90, learning_curve |-> "easy",
        community_support |-> 75, cost_impact |-> "higher"],
      [name |-> "PostgreSQL", version |-> "15+", category |-> "database", migration_effort |-> "high",
        migration_time |-> "6-12 months", compatibility_score |-> 60, learning_curve |-> "moderate",
        community_support |-> 85, cost_impact |-> "lower"] >>)
  @@ ("maven_2" :>
   << [name |-> "Maven", version |-> "3.9+", category |-> "build_tool", migration_effort |-> "low",
        migration_time |-> "1-2 weeks", compatibility_score |-> 95, learning_curve |-> "easy",
        community_support |-> 80, cost_impact |-> "similar"],
      [name |-> "Gradle", version |-> "8+", category |-> "build_tool", migration_effort |-> "medium",
        migration_time |-> "1-2 months", compatibility_score |-> 70, learning_curve |-> "moderate",
        community_support |-> 85, cost_impact |-> "similar"] >>)
  @@ ("jenkins_1" :>
   << [name |-> "Jenkins", version |-> "2.400+", category |-> "ci_cd", migration_effort |-> "medium",
        migration_time |-> "1-2 months", compatibility_score |-> 80, learning_curve |-> "easy",
        community_support |-> 80, cost_impact |-> "similar"],
      [name |-> "GitHub Actions", version |-> "Latest", category |-> "ci_cd", migration_effort |-> "medium",
        migration_time |-> "2-3 months", compatibility_score |-> 60, learning_curve |-> "easy",
        community_support |-> 90, cost_impact |-> "lower"],
      [name |-> "GitLab CI/CD", version |-> "Latest", category |-> "ci_cd", migration_effort |-> "medium",
        migration_time |-> "2-4 months", compatibility_score |-> 70, learning_curve |-> "moderate",
        community_support |-> 80, cost_impact |-> "similar"] >>)

_load_migration_templates ==
  ("language_upgrade" :>
   [phases |-> << [name |-> "Assessment", duration |-> "1-2 weeks",
        tasks |-> << "Inventory current codebase",
                     "Identify breaking changes",
                     "Create compatibility matrix",
                     "Plan testing strategy" >>],
      [name |-> "Preparation", duration |-> "2-3 weeks",
        tasks |-> << "Setup new development environment",
                     "Update build scripts",
                     "Configure CI/CD pipelines",
                     "Create migration guides" >>],
      [name |-> "Migration", duration |-> "4-8 weeks",
        tasks |-> << "Update core libraries",
                     "Fix breaking changes",
                     "Update deprecated APIs",
                     "Comprehensive testing" >>],
      [name |-> "Validation", duration |-> "2-3 weeks",
        tasks |-> << "Performance testing",
                     "Security review",
                     "User acceptance testing",
                     "Documentation updates" >>] >>])
  @@ ("framework_migration" :>
   [phases |-> << [name |-> "Planning", duration |-> "2-4 weeks",
        tasks |-> << "Architecture design",
                     "Component mapping",
                     "Data migration strategy",
                     "Team training plan" >>],
      [name |-> "Foundation", duration |-> "3-4 weeks",
        tasks |-> << "Setup new framework",
                     "Core infrastructure",
                     "Shared components",
                     "Development guidelines" >>],
      [name |-> "Feature Migration", duration |-> "8-16 weeks",
        tasks |-> << "Migrate features incrementally",
                     "Maintain parallel systems",
                     "Progressive rollout",
                     "User feedback integration" >>],
      [name |-> "Completion", duration |-> "2-4 weeks",
        tasks |-> << "Decommission old system",
                     "Performance optimization",
                     "Final testing",
                     "Go-live support" >>] >>])
  @@ ("database_upgrade" :>
   [phases |-> << [name |-> "Pre-Migration", duration |-> "2-3 weeks",
        tasks |-> << "Schema compatibility check",
                     "Data backup strategy",
                     "Performance baseline",
                     "Rollback procedures" >>],
      [name |-> "Migration Setup", duration |-> "1-2 weeks",
        tasks |-> << "Install new database version",
                     "Configure replication",
                     "Setup monitoring",
                     "Test environments" >>],
      [name |-> "Data Migration", duration |-> "1-3 weeks",
        tasks |-> << "Schema migration",
                     "Data transfer",
                     "Index recreation",
                     "Performance tuning" >>],
      [name |-> "Validation", duration |-> "1-2 weeks",
        tasks |-> << "Data integrity checks",
                     "Performance validation",
                     "Application testing",
                     "Cutover planning" >>] >>])

\* name.lower().replace(' ', '_').replace('.', '_') leaves the detector's
\* names (lower-case single words) as they are; version.startswith(...) is
\* decided on the version's components (versions are the strings
\* _extract_version builds)
_normalize_technology_key(name, version) ==
  LET normalized_name == name
      VersionDigits == {<<2, 7>>, <<8>>, <<1, 5>>, <<5, 5>>, <<11>>, <<1, 6>>, <<15>>}
      d == CHOOSE digits \in VersionDigits : _extract_version(digits) = version
      RECURSIVE LeadingDigit(_)
      LeadingDigit(n) == IF n < 10 THEN n ELSE LeadingDigit(n \div 10)
  IN IF version # None
     THEN IF normalized_name = "python" /\ LeadingDigit(d[1]) = 2 THEN "python_2"
          ELSE IF normalized_name = "java" /\ LeadingDigit(d[1]) = 8 THEN "java_8"
          ELSE IF normalized_name = "angular" /\ (d = <<1>> \/ (d[1] = 1 /\ Len(d) > 1))
               THEN "angular_1"
          ELSE IF normalized_name = "react" /\ (d[1] = 15 \/ d[1] \div 10 = 15)
               THEN "react_15"
          ELSE IF normalized_name = "mysql" /\ Len(d) > 1 /\ d[1] = 5 /\ LeadingDigit(d[2]) = 5
               THEN "mysql_5_5"
          \* the detector's version patterns never keep the "g" of 11g
          ELSE IF normalized_name = "oracle" /\ version = "11g" THEN "oracle_11g"
          ELSE IF normalized_name = "maven" /\ LeadingDigit(d[1]) = 2 THEN "maven_2"
          ELSE IF normalized_name = "jenkins" /\ LeadingDigit(d[1]) = 1 THEN "jenkins_1"
          ELSE normalized_name
     ELSE normalized_name

\* the score in thousandths: compatibility * 0.4 + community_support / 10 * 0.2
\* + learning * 0.15 + effort * 0.15 + cost * 0.1
_score_alternative(alternative) ==
  LET learning_scores == [easy |-> 10, moderate |-> 7, steep |-> 3]
      effort_scores == [low |-> 10, medium |-> 6, high |-> 2]
      cost_scores == [lower |-> 10, similar |-> 8, higher |-> 3]
  IN 4 * alternative.compatibility_score
     + 2 * alternative.community_support
     + 15 * Get(learning_scores, alternative.learning_curve, 5)
     + 15 * Get(effort_scores, alternative.migration_effort, 5)
     + 10 * Get(cost_scores, alternative.cost_impact, 5)

_generate_generic_suggestions(tech) ==
  LET category_suggestions ==
        [programming_language |->
           << [name |-> "Modern Language Version", version |-> "Latest LTS",
               category |-> "programming_language", migration_effort |-> "medium",
               migration_time |-> "2-4 months", compatibility_score |-> 80,
               learning_curve |-> "easy", community_support |-> 80,
               cost_impact |-> "similar"] >>,
         frontend_framework |->
           << [name |-> "Modern Frontend Framework", version |-> "Latest",
               category |-> "frontend_framework", migration_effort |-> "high",
               migration_time |-> "4-8 months", compatibility_score |-> 50,
               learning_curve |-> "moderate", community_support |-> 80,
               cost_impact |-> "similar"] >>]
  IN Get(category_suggestions, tech.category, <<>>)

\* scored_alternatives.sort(key=lambda x: x[1], reverse=True): a stable sort,
\* so an alternative moves in front of those with a strictly lower score only
ScoreOrderAscending(a, b) == _score_alternative(a) > _score_alternative(b)
ScoreOrder(a, b) == _score_alternative(a) < _score_alternative(b)

\* the alternatives of one key, scored and sorted
scored_alternatives(alternatives) ==
  LET RECURSIVE insert(_, _)
      insert(sorted, alt) ==
        IF sorted = <<>> THEN <<alt>>
        ELSE IF ScoreOrder(sorted[Len(sorted)], alt)
        THEN Append(insert(SubSeq(sorted, 1, Len(sorted) - 1), alt), sorted[Len(sorted)])
        ELSE Append(sorted, alt)
      RECURSIVE loop(_, _)
      loop(i, sorted) ==
        IF i > Len(alternatives) THEN sorted
        ELSE loop(i + 1, insert(sorted, alternatives[i]))
  IN loop(1, <<>>)

\* the dict returned: a function from the keys that got an entry to their
\* lists; a later detection with the same key overwrites the entry
suggest_alternatives(database, technology_detections) ==
  LET RECURSIVE loop(_, _)
      loop(i, result) ==
        IF i > Len(technology_detections) THEN result
        ELSE LET tech == technology_detections[i].technology
                 tech_key == _normalize_technology_key(tech.name, tech.version)
             IN IF tech_key \in DOMAIN database
                THEN loop(i + 1, (tech_key :> scored_alternatives(database[tech_key]))
                                   @@ result)
                ELSE LET generic_suggestions == _generate_generic_suggestions(tech)
                     IN IF generic_suggestions # <<>>
                        THEN loop(i + 1, (tech_key :> generic_suggestions) @@ result)
                        ELSE loop(i + 1, result)
  IN loop(1, EmptyDict)

_select_migration_template(target_alternative) ==
  IF target_alternative.category = "programming_language" THEN "language_upgrade"
  ELSE IF target_alternative.category \in {"frontend_framework", "backend_framework"}
  THEN "framework_migration"
  ELSE IF target_alternative.category = "database" THEN "database_upgrade"
  ELSE "language_upgrade"

\* the technologies a plan is asked for, with the two substring tests
\* 'python' in original_tech.lower() and 'java' in original_tech.lower()
OriginalTechnologies ==
  { [text |-> "Python 2.7", has_python |-> TRUE, has_java |-> FALSE, key |-> "python_2"],
    [text |-> "Java 8", has_python |-> FALSE, has_java |-> TRUE, key |-> "java_8"],
    [text |-> "MySQL 5.5", has_python |-> FALSE, has_java |-> FALSE, key |-> "mysql_5_5"],
    [text |-> "AngularJS 1.5", has_python |-> FALSE, has_java |-> FALSE, key |-> "angular_1"] }

\* phase.copy() is a shallow copy: customized_phase['tasks'] is the list
\* object of the template's phase, so extend() grows both.  The value
\* returned is the list of phases; the template's phases afterwards hold
\* the same task lists.
_customize_migration_phases(base_phases, original_tech, target_alternative) ==
  [i \in 1..Len(base_phases) |->
     LET phase == base_phases[i]
     IN IF original_tech.has_python /\ target_alternative.name = "Python"
        THEN IF phase.name = "Migration"
             THEN [phase EXCEPT !.tasks = @ \o
                     << "Update print statements to functions",
                        "Fix unicode/string handling",
                        "Update division operators",
                        "Migrate to new import statements" >>]
             ELSE phase
        ELSE IF original_tech.has_java /\ target_alternative.name = "Kotlin"
        THEN IF phase.name = "Migration"
             THEN [phase EXCEPT !.tasks = @ \o
                     << "Convert Java classes to Kotlin",
                        "Update null handling with safe operators",
                        "Migrate to Kotlin coroutines",
                        "Update build.gradle for Kotlin" >>]
             ELSE phase
        ELSE phase]

\* the plan returned, and the templates as the call leaves them
create_migration_plan(templates, original_tech, target_alternative) ==
  LET template_key == _select_migration_template(target_alternative)
      used_key == IF template_key \in DOMAIN templates THEN template_key
                  ELSE "language_upgrade"
      customized_phases ==
        _customize_migration_phases(templates[used_key].phases, original_tech,
                                    target_alternative)
  IN [plan |-> [original_technology |-> original_tech.text,
                target_technology |-> target_alternative.name \o " "
                                      \o target_alternative.version,
                phases |-> customized_phases,
                estimated_duration |-> target_alternative.migration_time],
      templates |-> [templates EXCEPT ![used_key].phases = customized_phases]]

\* detections handed to suggest_alternatives: technology name and the
\* version components written after it
SuggesterDetections ==
  { [technology |-> [name |-> t[1], version |-> _extract_version(t[2]),
                     category |-> _categorize_technology(t[1])]] :
      t \in { <<"python", <<2, 7>>>>, <<"python", <<>>>>, <<"java", <<8>>>>,
              <<"angular", <<1, 5>>>>, <<"react", <<>>>>, <<"react", <<15>>>>,
              <<"mysql", <<5, 5>>>>, <<"oracle", <<11>>>>, <<"jenkins", <<1, 6>>>>,
              <<"aws", <<>>>> } }

\* alternatives a database entry may list, for the scoring and sorting step
\* taken on its own: Vue.js 3+ and React 18+ of the 'angular_1' entry, and
\* four further frontend alternatives
CandidateAlternatives ==
  { [name |-> "Vue.js", version |-> "3+", category |-> "frontend_framework",
     migration_effort |-> "medium", migration_time |-> "3-6 months",
     compatibility_score |-> 40, learning_curve |-> "easy",
     community_support |-> 80, cost_impact |-> "similar"],
    [name |-> "React", version |-> "18+", category |-> "frontend_framework",
     migration_effort |-> "high", migration_time |-> "4-8 months",
     compatibility_score |-> 20, learning_curve |-> "moderate",
     community_support |-> 95, cost_impact |-> "similar"],
    [name |-> "Svelte", version |-> "4+", category |-> "frontend_framework",
     migration_effort |-> "medium", migration_time |-> "3-6 months",
     compatibility_score |-> 20, learning_curve |-> "easy",
     community_support |-> 80, cost_impact |-> "similar"],
    [name |-> "Preact", version |-> "10+", category |-> "frontend_framework",
     migration_effort |-> "high", migration_time |-> "4-8 months",
     compatibility_score |-> 30, learning_curve |-> "easy",
     community_support |-> 90, cost_impact |-> "similar"],
    [name |-> "Ember", version |-> "5+", category |-> "frontend_framework",
     migration_effort |-> "high", migration_time |-> "4-8 months",
     compatibility_score |-> 20, learning_curve |-> "moderate",
     community_support |-> 80, cost_impact |-> "similar"],
    [name |-> "Lit", version |-> "3+", category |-> "frontend_framework",
     migration_effort |-> "medium", migration_time |-> "3-6 months",
     compatibility_score |-> 20, learning_curve |-> "steep",
     community_support |-> 80, cost_impact |-> "similar"] }

\* ------------------------------------------------------------------
\* Documents handed to the quality and structure scorer
\* ------------------------------------------------------------------

\* raw_text as the measures the scorer takes of it: the empty text; three
\* blanks; 'Install the tool. Run it.'; a guide with two headings, three
\* numbered steps and one transition word; 200 words in two sentences; a
\* manual of 638 words with all five transition words and mixed bullets
\* metadata['structure']: absent, or headings and the lists / tables / links
\* entries, each a count or (as content_extractor.py reads them) a list
\* Documents carry an identifier, as the scorer's callers other than
\* extract_from_url build them.
Documents ==
  LET DocumentTexts ==
      { [words |-> 0, chars |-> 0, sentences |-> 1, numbered_steps |-> 0,
         complex_words |-> 0, transitions |-> 0, newlines |-> 0,
         heading_words |-> <<>>, star_bullets |-> 0, dash_bullets |-> 0,
         paragraphs |-> <<0>>],
        [words |-> 0, chars |-> 3, sentences |-> 1, numbered_steps |-> 0,
         complex_words |-> 0, transitions |-> 0, newlines |-> 0,
         heading_words |-> <<>>, star_bullets |-> 0, dash_bullets |-> 0,
         paragraphs |-> <<0>>],
        [words |-> 5, chars |-> 25, sentences |-> 3, numbered_steps |-> 0,
         complex_words |-> 1, transitions |-> 0, newlines |-> 0,
         heading_words |-> <<>>, star_bullets |-> 0, dash_bullets |-> 0,
         paragraphs |-> <<5>>],
        [words |-> 127, chars |-> 765, sentences |-> 12, numbered_steps |-> 3,
         complex_words |-> 25, transitions |-> 1, newlines |-> 10,
         heading_words |-> <<2, 2>>, star_bullets |-> 0, dash_bullets |-> 0,
         paragraphs |-> <<3, 48, 3, 12, 61>>],
        [words |-> 200, chars |-> 1001, sentences |-> 3, numbered_steps |-> 0,
         complex_words |-> 0, transitions |-> 0, newlines |-> 0,
         heading_words |-> <<>>, star_bullets |-> 0, dash_bullets |-> 0,
         paragraphs |-> <<200>>],
        [words |-> 638, chars |-> 3691, sentences |-> 45, numbered_steps |-> 0,
         complex_words |-> 95, transitions |-> 5, newlines |-> 17,
         heading_words |-> <<3, 3>>, star_bullets |-> 2, dash_bullets |-> 1,
         paragraphs |-> <<4, 117, 126, 126, 126, 126, 4, 9>>] }
      DocumentStructures ==
      { EmptyDict,
        [headings |-> << [level |-> 1, text |-> "Guide"] >>],
        [headings |-> << [level |-> 1, text |-> "Guide"], [level |-> 3, text |-> "Steps"] >>,
         lists |-> [count |-> 2], tables |-> [count |-> 1], links |-> [count |-> 3]],
        [headings |-> << [text |-> "Intro"] >>],
        [headings |-> <<>>, tables |-> [items |-> <<>>]] }
  IN { [content_id |-> "content_1", title |-> t, raw_text |-> x,
        metadata |-> [structure |-> s]] :
         t \in {"", "Guide"}, x \in DocumentTexts, s \in DocumentStructures }

\* ------------------------------------------------------------------
\* Pattern classifier: DataAnalyzer (data_extractor.py)
\* ------------------------------------------------------------------

MaxColumnLen == 5

\* the raw values of a column: None, a blank, two numbers, a date, a word
ColumnValues == {None, " ", "7", "1,200", "2024-01-05", "n/a"}

\* _is_datetime_column: the first five values, re.match against date_patterns
_is_datetime_column(data) ==
  LET sample_size == IF Len(data) < 5 THEN Len(data) ELSE 5
      datetime_count == Cardinality({i \in 1..sample_size : data[i] \in {"2024-01-05"}})
  IN 10 * datetime_count >= 8 * sample_size

\* _is_numeric: float() of the value without ',', '$' and '%'
_is_numeric(value) == value \in {"7", "1,200"}

\* _is_numeric_column: the first ten values
_is_numeric_column(data) ==
  LET sample_size == IF Len(data) < 10 THEN Len(data) ELSE 10
      numeric_count == Cardinality({i \in 1..sample_size : _is_numeric(data[i])})
  IN 10 * numeric_count >= 8 * sample_size

\* _analyze_column: completeness in thousandths (rounded down).  float() in
\* _extract_numeric raises ValueError on a value that is no number, and
\* nothing in _analyze_column catches it.
_analyze_column(data) ==
  LET non_null_data == SelectSeq(data, LAMBDA item : item # None /\ item # " ")
      completeness == (1000 * Len(non_null_data)) \div Len(data)
      unique_values == {non_null_data[i] : i \in 1..Len(non_null_data)}
  IN IF non_null_data = <<>> THEN [type |-> "empty", completeness |-> 0]
     ELSE IF _is_datetime_column(non_null_data)
     THEN [type |-> "datetime", completeness |-> completeness, format |-> "YYYY-MM-DD"]
     ELSE IF _is_numeric_column(non_null_data)
     THEN IF \E i \in 1..Len(non_null_data) : ~_is_numeric(non_null_data[i])
          THEN Raised("ValueError")
          ELSE [type |-> "numeric", completeness |-> completeness]
     ELSE IF 10 * Cardinality(unique_values) <= 7 * Len(non_null_data)
     THEN [type |-> "categorical", completeness |-> completeness,
           unique_count |-> Cardinality(unique_values)]
     ELSE [type |-> "text", completeness |-> completeness]

\* ------------------------------------------------------------------
\* Page creator: ConfluencePageCreator (page_creator.py)
\* ------------------------------------------------------------------

MaxRequests == 2

\* Titles of original pages, as the sequence of their pieces: words (\w+),
\* blanks, hyphens and other punctuation.
PageTitles ==
  { <<"Guide">>,
    <<"My", " ", "Test", " ", "Page">>,
    <<"Release", "-", "Notes", "!">>,
    <<"A", " ", "-", " ", "B">> }

\* _generate_page_details: re.sub(r'[^\w\s-]', '', title), then
\* re.sub(r'[-\s]+', '_', ...), then the strftime("%H%M%S_%d%m%y") suffix;
\* display_title keeps the original title
_generate_page_details(original_page_info, clock) ==
  LET kept == SelectSeq(original_page_info.title, LAMBDA piece : piece # "!")
      RECURSIVE collapse(_)
      collapse(i) ==
        IF i > Len(kept) THEN <<>>
        ELSE IF kept[i] \in {" ", "-"}
        THEN (IF i > 1 /\ kept[i - 1] \in {" ", "-"} THEN <<>> ELSE <<"_">>) \o collapse(i + 1)
        ELSE <<kept[i]>> \o collapse(i + 1)
      clean_title == collapse(1)
  IN [title |-> clean_title \o <<"_", clock.hms, "_", clock.dmy>>,
      display_title |-> original_page_info.title
                        \o <<" (AI Enhanced - ", clock.display, ")">>,
      space_key |-> original_page_info.space_key]

\* create_enhanced_page (the method): what it sends and what it returns.
\* _prepare_new_page_config builds f"{original_title}_ENHANCED_{timestamp}"
\* with strftime('%H%M%S_%d%m%Y').  _validate_page_config,
\* _execute_page_creation, _verify_page_creation and _update_page_content are
\* defined in the class ConfluenceMarkupConverter, so
\* self._validate_page_config raises AttributeError right after the
\* configuration is prepared, and the handler returns the failure result.
create_enhanced_page(original_page_info, clock) ==
  LET new_page_config ==
        [title |-> original_page_info.title
                   \o <<"_", "ENHANCED", "_", clock.hms, "_", clock.dmY>>,
         space_key |-> original_page_info.space_key]
  IN [requests |-> <<>>,
      config |-> new_page_config,
      result |-> [success |-> FALSE,
                  error |-> "'ConfluencePageCreator' object has no attribute '_validate_page_config'",
                  original_page_preserved |-> TRUE]]

\* _create_confluence_page: the request it sends; the title is
\* page_details['display_title']
_create_confluence_page_by_put(page_details, original_page_info) ==
  [method |-> "PUT", path |-> "/wiki/rest/api/content", page_id |-> original_page_info.page_id,
   title |-> page_details.display_title]
_create_confluence_page(page_details, original_page_info) ==
  [method |-> "POST", path |-> "/wiki/rest/api/content", page_id |-> None,
   title |-> page_details.display_title]

\* ------------------------------------------------------------------
\* Chart suggestions: DataExtractor (data_extractor.py)
\* ------------------------------------------------------------------

MaxColumns == 4

\* analyze_data_structure, after _analyze_column has typed every column:
\* the header of column i is "c<i>"
analyze_data_structure(types) ==
  LET headers == [i \in 1..Len(types) |-> "c" \o ToString(i)]
      RECURSIVE of_type(_, _)
      of_type(t, i) ==
        IF i > Len(types) THEN <<>>
        ELSE (IF types[i] = t THEN <<headers[i]>> ELSE <<>>) \o of_type(t, i + 1)
  IN [valid |-> TRUE,
      has_time_series |-> of_type("datetime", 1) # <<>>,
      has_numeric_data |-> of_type("numeric", 1) # <<>>,
      has_categories |-> of_type("categorical", 1) # <<>>,
      time_columns |-> of_type("datetime", 1),
      numeric_columns |-> of_type("numeric", 1),
      category_columns |-> of_type("categorical", 1)]

\* _generate_visualization_suggestions
_generate_visualization_suggestions(analysis) ==
  IF ~analysis.valid THEN <<>>
  ELSE
    (IF analysis.has_time_series /\ analysis.has_numeric_data
     THEN << [type |-> "line_chart", priority |-> "high",
              columns |-> [x |-> analysis.time_columns[1], y |-> analysis.numeric_columns[1]]] >>
     ELSE <<>>)
    \o (IF analysis.has_categories /\ analysis.has_numeric_data
        THEN << [type |-> "bar_chart", priority |-> "high",
                 columns |-> [x |-> analysis.category_columns[1],
                              y |-> analysis.numeric_columns[1]]] >>
        ELSE <<>>)
    \o (IF Len(analysis.numeric_columns) >= 2
        THEN << [type |-> "scatter_plot", priority |-> "medium",
                 columns |-> [x |-> analysis.numeric_columns[1],
                              y |-> analysis.numeric_columns[2]]] >>
        ELSE <<>>)
    \o (IF analysis.has_numeric_data
        THEN << [type |-> "histogram", priority |-> "medium",
                 columns |-> [x |-> analysis.numeric_columns[1]]] >>
        ELSE <<>>)
    \o (IF Len(analysis.numeric_columns) >= 3
        THEN << [type |-> "heatmap", priority |-> "medium",
                 columns |-> [data |-> analysis.numeric_columns]] >>
        ELSE <<>>)

roadmapVars == <<suggestions, roadmap>>
detectVars == <<content, detections>>
suggestVars == <<tm_content, tm_suggestions, enhancements, recommendations>>
analyzeVars == <<components, now, history>>
qualityVars == <<analysis_call, analysis_result, analyses_done>>
alternativesVars == <<alt_detections, alt_suggestions, alternatives_database,
                      migration_templates, migration_plan, plans_created>>

Init ==
  /\ suggestions = <<>>
  /\ roadmap = generate_modernization_roadmap(<<>>)
  /\ content = <<>>
  /\ detections = analyze_technology_stack(<<>>)
  /\ tm_content = <<>>
  /\ tm_suggestions = TechnologyModernizer_analyze_content(<<>>, "content_1")
  /\ enhancements = <<>>
  /\ recommendations = <<>>
  /\ components \in ComponentSets
  /\ now = 0
  /\ history = <<>>
  /\ alt_detections = <<>>
  /\ alt_suggestions = suggest_alternatives(_load_alternatives_database, <<>>)
  /\ alternatives_database = _load_alternatives_database
  /\ migration_templates = _load_migration_templates
  /\ migration_plan = Null
  /\ plans_created = 0
  /\ entry_alternatives = <<>>
  /\ ranked = <<>>
  /\ analysis_call = [op |-> "none"]
  /\ analysis_result = Null
  /\ analyses_done = 0
  /\ column = <<>>
  /\ column_profile = Null
  /\ added_signature = None
  /\ wiki_requests = <<>>
  /\ page_creation = Null
  /\ column_types = <<>>
  /\ visualization_suggestions = <<>>
  /\ chunking = [pc |-> "idle"]
  /\ extraction = Null
  /\ heading_fix = Null

\* plan(suggestions) on the list collected so far plus one more suggestion
\* (analyze_and_modernize_content extends the list, then plans)
GenerateModernizationRoadmap ==
  /\ Len(suggestions) < MaxSuggestions
  /\ \E s \in SuggestionDicts :
       /\ suggestions' = Append(suggestions, s)
       /\ roadmap' = generate_modernization_roadmap(suggestions')
  /\ UNCHANGED <<detectVars, suggestVars, analyzeVars, alternativesVars, entry_alternatives, ranked, qualityVars, column, column_profile, added_signature,
                 wiki_requests, page_creation,
                 column_types, visualization_suggestions,
                 chunking,
                 extraction,
                 heading_fix>>

\* plan([]) of a fresh request
GenerateEmptyRoadmap ==
  /\ suggestions # <<>>
  /\ suggestions' = <<>>
  /\ roadmap' = generate_modernization_roadmap(<<>>)
  /\ UNCHANGED <<detectVars, suggestVars, analyzeVars, alternativesVars, entry_alternatives, ranked, qualityVars, column, column_profile, added_signature,
                 wiki_requests, page_creation,
                 column_types, visualization_suggestions,
                 chunking,
                 extraction,
                 heading_fix>>

NextRoadmap == GenerateModernizationRoadmap \/ GenerateEmptyRoadmap

SpecRoadmap == Init /\ [][NextRoadmap]_vars

\* detect(text) on a text one line longer than the previous one
AnalyzeTechnologyStack ==
  /\ Len(content) < MaxMentions
  /\ \E m \in Mentions :
       /\ content' = Append(content, m)
       /\ detections' = analyze_technology_stack(content')
  /\ UNCHANGED <<roadmapVars, suggestVars, analyzeVars, alternativesVars, entry_alternatives, ranked, qualityVars, column, column_profile, added_signature,
                 wiki_requests, page_creation,
                 column_types, visualization_suggestions,
                 chunking,
                 extraction,
                 heading_fix>>

\* detect("") of a fresh document
AnalyzeEmptyText ==
  /\ content # <<>>
  /\ content' = <<>>
  /\ detections' = analyze_technology_stack(<<>>)
  /\ UNCHANGED <<roadmapVars, suggestVars, analyzeVars, alternativesVars, entry_alternatives, ranked, qualityVars, column, column_profile, added_signature,
                 wiki_requests, page_creation,
                 column_types, visualization_suggestions,
                 chunking,
                 extraction,
                 heading_fix>>

NextDetect == AnalyzeTechnologyStack \/ AnalyzeEmptyText

SpecDetect == Init /\ [][NextDetect]_vars


\* analyze_technology_stack, by an analyzer whose table holds the added
\* signature, on a text one line longer than the previous one
AnalyzeWithSignature ==
  /\ Len(content) < MaxMentions
  /\ \E signature \in AddedSignatures, m \in Mentions :
       /\ added_signature' = signature
       /\ content' = Append(content, m)
       /\ detections' = analyze_with_signature(content', signature)
  /\ UNCHANGED <<roadmapVars, suggestVars, analyzeVars, alternativesVars,
                 entry_alternatives, ranked, qualityVars, column, column_profile,
                 wiki_requests, page_creation,
                 column_types, visualization_suggestions,
                 chunking,
                 extraction,
                 heading_fix>>

SpecFault == Init /\ [][AnalyzeWithSignature]_vars

\* TechnologyModernizer.analyze_content on a content one word longer
ModernizerAnalyzeContent ==
  /\ Len(tm_content) < MaxWords
  /\ \E w \in Words :
       /\ tm_content' = Append(tm_content, w)
       /\ tm_suggestions' = TechnologyModernizer_analyze_content(tm_content', "content_1")
  /\ UNCHANGED <<roadmapVars, detectVars, enhancements, recommendations, analyzeVars, alternativesVars, entry_alternatives, ranked, qualityVars, column, column_profile, added_signature,
                 wiki_requests, page_creation,
                 column_types, visualization_suggestions,
                 chunking,
                 extraction,
                 heading_fix>>

\* TechnologyModernizer.analyze_content on an empty content
ModernizerAnalyzeEmptyContent ==
  /\ tm_content # <<>>
  /\ tm_content' = <<>>
  /\ tm_suggestions' = TechnologyModernizer_analyze_content(<<>>, "content_1")
  /\ UNCHANGED <<roadmapVars, detectVars, enhancements, recommendations, analyzeVars, alternativesVars, entry_alternatives, ranked, qualityVars, column, column_profile, added_signature,
                 wiki_requests, page_creation,
                 column_types, visualization_suggestions,
                 chunking,
                 extraction,
                 heading_fix>>

\* EnhancementEngine.generate_enhancements under some outcome of its model calls
GenerateEnhancements ==
  /\ \E llm_analysis \in LlmOutcomes, llm_rewrite \in LlmOutcomes :
       enhancements' = generate_enhancements(llm_analysis, llm_rewrite)
  /\ UNCHANGED <<roadmapVars, detectVars, tm_content, tm_suggestions, recommendations, analyzeVars, alternativesVars, entry_alternatives, ranked, qualityVars, column, column_profile, added_signature,
                 wiki_requests, page_creation,
                 column_types, visualization_suggestions,
                 chunking,
                 extraction,
                 heading_fix>>

\* the recommendations list of the response to an enhanced analysis request
GenerateComprehensiveRecommendations ==
  /\ \E request \in EnhancedAnalysisRequests :
       LET response == enhanced_content_analysis(request, now)
       IN recommendations' = IF response.status = 200 THEN response.body.recommendations
                             ELSE <<>>
  /\ UNCHANGED <<roadmapVars, detectVars, tm_content, tm_suggestions, enhancements, analyzeVars, alternativesVars, entry_alternatives, ranked, qualityVars, column, column_profile, added_signature,
                 wiki_requests, page_creation,
                 column_types, visualization_suggestions,
                 chunking,
                 extraction,
                 heading_fix>>

NextSuggest ==
  \/ ModernizerAnalyzeContent
  \/ ModernizerAnalyzeEmptyContent
  \/ GenerateEnhancements
  \/ GenerateComprehensiveRecommendations

SpecSuggest == Init /\ [][NextSuggest]_vars

\* POST /analysis/analyze handled by main.py at the current time
PostAnalysisAnalyze ==
  /\ Len(history) < MaxRuns
  /\ \E analysis_request \in AnalysisRequests, llm \in QualityLlmOutcomes :
       history' = Append(history,
                         [endpoint |-> "analysis/analyze",
                          request |-> analysis_request,
                          llm |-> llm,
                          response |-> analyze_content(analysis_request, components, llm, now)])
  /\ UNCHANGED <<roadmapVars, detectVars, suggestVars, components, now, alternativesVars, entry_alternatives, ranked, qualityVars, column, column_profile, added_signature,
                 wiki_requests, page_creation,
                 column_types, visualization_suggestions,
                 chunking,
                 extraction,
                 heading_fix>>

\* POST /analyze handled by enhanced_analysis.py at the current time
PostEnhancedAnalyze ==
  /\ Len(history) < MaxRuns
  /\ \E request \in EnhancedAnalysisRequests :
       history' = Append(history,
                         [endpoint |-> "enhanced/analyze",
                          request |-> request,
                          response |-> enhanced_content_analysis(request, now)])
  /\ UNCHANGED <<roadmapVars, detectVars, suggestVars, components, now, alternativesVars, entry_alternatives, ranked, qualityVars, column, column_profile, added_signature,
                 wiki_requests, page_creation,
                 column_types, visualization_suggestions,
                 chunking,
                 extraction,
                 heading_fix>>

\* the wall clock advances by a second
Tick ==
  /\ now < MaxClock
  /\ now' = now + 1
  /\ UNCHANGED <<roadmapVars, detectVars, suggestVars, components, history, alternativesVars, entry_alternatives, ranked, qualityVars, column, column_profile, added_signature,
                 wiki_requests, page_creation,
                 column_types, visualization_suggestions,
                 chunking,
                 extraction,
                 heading_fix>>

NextAnalyze == PostAnalysisAnalyze \/ PostEnhancedAnalyze \/ Tick

SpecAnalyze == Init /\ [][NextAnalyze]_vars

\* POST /analysis/extract handled by main.py
PostAnalysisExtract ==
  /\ \E analysis_request \in [page_url : ExtractUrls] :
       extraction' = [request |-> analysis_request,
                      response |-> extract_content(analysis_request, components)]
  /\ UNCHANGED <<roadmapVars, detectVars, suggestVars, analyzeVars, alternativesVars, entry_alternatives, ranked, qualityVars, column, column_profile, added_signature,
                 wiki_requests, page_creation,
                 column_types, visualization_suggestions,
                 chunking,
                 heading_fix>>

\* the three analysis endpoints in any order
SpecEndpoints == Init /\ [][PostAnalysisExtract \/ PostAnalysisAnalyze \/ PostEnhancedAnalyze]_vars

\* _fix_heading_hierarchy called on a page's heading list: the list of the
\* previous call, as it is or with one more heading at its end
FixHeadingHierarchy ==
  /\ \E more \in {<<>>} \cup {<<heading>> : heading \in HeadingInputs} :
       LET headings == (IF IsNull(heading_fix) THEN <<>> ELSE heading_fix.headings) \o more
       IN /\ Len(headings) <= MaxHeadings
          /\ heading_fix' = [headings |-> headings,
                             result |-> _fix_heading_hierarchy(headings)]
  /\ UNCHANGED <<roadmapVars, detectVars, suggestVars, analyzeVars, alternativesVars, entry_alternatives, ranked, qualityVars, column, column_profile, added_signature,
                 wiki_requests, page_creation,
                 column_types, visualization_suggestions,
                 chunking,
                 extraction>>

SpecHeadings == Init /\ [][FixHeadingHierarchy]_vars

\* ------------------------------------------------------------------
\* Alternative suggester: calls
\* ------------------------------------------------------------------

\* suggest_alternatives on the detections collected so far plus one more
SuggestAlternatives ==
  /\ Len(alt_detections) < MaxAltDetections
  /\ \E d \in SuggesterDetections :
       /\ alt_detections' = Append(alt_detections, d)
       /\ alt_suggestions' = suggest_alternatives(alternatives_database, alt_detections')
  /\ UNCHANGED <<alternatives_database, migration_templates, migration_plan, plans_created>>
  /\ UNCHANGED <<roadmapVars, detectVars, suggestVars, analyzeVars, entry_alternatives, ranked, qualityVars, column, column_profile, added_signature,
                 wiki_requests, page_creation,
                 column_types, visualization_suggestions,
                 chunking,
                 extraction,
                 heading_fix>>

\* create_migration_plan(original_tech, target_alternative) for one of the
\* alternatives the database lists for the technology
CreateMigrationPlan ==
  /\ plans_created < MaxPlans
  /\ \E original_tech \in OriginalTechnologies :
       \E i \in 1..Len(alternatives_database[original_tech.key]) :
         LET call == create_migration_plan(migration_templates, original_tech,
                                           alternatives_database[original_tech.key][i])
         IN /\ migration_plan' = call.plan
            /\ migration_templates' = call.templates
  /\ plans_created' = plans_created + 1
  /\ UNCHANGED <<alt_detections, alt_suggestions, alternatives_database>>
  /\ UNCHANGED <<roadmapVars, detectVars, suggestVars, analyzeVars, entry_alternatives, ranked, qualityVars, column, column_profile, added_signature,
                 wiki_requests, page_creation,
                 column_types, visualization_suggestions,
                 chunking,
                 extraction,
                 heading_fix>>

NextAlternatives == SuggestAlternatives \/ CreateMigrationPlan

SpecAlternatives == Init /\ [][NextAlternatives]_vars

\* the scoring and sorting step of suggest_alternatives on the list of
\* alternatives collected so far plus one more
ScoreAndSortAlternatives ==
  /\ Len(entry_alternatives) < MaxCandidates
  /\ \E alt \in CandidateAlternatives :
       /\ entry_alternatives' = Append(entry_alternatives, alt)
       /\ ranked' = scored_alternatives(entry_alternatives')
  /\ UNCHANGED <<roadmapVars, detectVars, suggestVars, analyzeVars, alternativesVars, qualityVars, column, column_profile, added_signature,
                 wiki_requests, page_creation,
                 column_types, visualization_suggestions,
                 chunking,
                 extraction,
                 heading_fix>>

SpecRank == Init /\ [][ScoreAndSortAlternatives]_vars

\* ------------------------------------------------------------------
\* Quality and structure scorer: calls
\* ------------------------------------------------------------------

\* ContentAnalyzer.analyze_content_quality(content)
AnalyzeContentQuality ==
  /\ analyses_done < MaxAnalyses
  /\ analyses_done' = analyses_done + 1
  /\ \E content_model \in Documents, llm \in QualityLlmOutcomes :
       /\ analysis_call' = [op |-> "quality", content |-> content_model, llm |-> llm]
       /\ analysis_result' = analyze_content_quality(content_model, llm)
  /\ UNCHANGED <<roadmapVars, detectVars, suggestVars, analyzeVars, alternativesVars,
                 entry_alternatives, ranked, column, column_profile, added_signature,
                 wiki_requests, page_creation,
                 column_types, visualization_suggestions,
                 chunking,
                 extraction,
                 heading_fix>>

\* ContentAnalyzer.analyze_content_structure(content)
AnalyzeContentStructure ==
  /\ analyses_done < MaxAnalyses
  /\ analyses_done' = analyses_done + 1
  /\ \E content_model \in Documents :
       /\ analysis_call' = [op |-> "structure", content |-> content_model, llm |-> "fallback"]
       /\ analysis_result' = analyze_content_structure(content_model)
  /\ UNCHANGED <<roadmapVars, detectVars, suggestVars, analyzeVars, alternativesVars,
                 entry_alternatives, ranked, column, column_profile, added_signature,
                 wiki_requests, page_creation,
                 column_types, visualization_suggestions,
                 chunking,
                 extraction,
                 heading_fix>>

\* TechAnalyzer.analyze_technology_stack on a document's text
DetectInDocument ==
  /\ \E text \in { <<>>,
                    << [word |-> "python", version |-> <<2, 7>>, keyword |-> TRUE] >>,
                    << [word |-> "python", version |-> <<>>, keyword |-> FALSE],
                       [word |-> "s3", version |-> <<>>, keyword |-> TRUE] >> } :
       /\ content' = text
       /\ detections' = analyze_technology_stack(text)
  /\ UNCHANGED <<roadmapVars, suggestVars, analyzeVars, alternativesVars,
                 entry_alternatives, ranked, qualityVars, column, column_profile, added_signature,
                 wiki_requests, page_creation,
                 column_types, visualization_suggestions,
                 chunking,
                 extraction,
                 heading_fix>>

SpecQuality ==
  Init /\ [][AnalyzeContentQuality \/ AnalyzeContentStructure \/ DetectInDocument]_vars

\* ------------------------------------------------------------------
\* Content analyzer: the call to the text-generation service
\* ------------------------------------------------------------------

\* analyze_content_quality up to the call of the service: with a client
\* (openai first, else anthropic) one create() is issued, without a timeout
\* argument, and the analysis waits for it; without a client the rule-based
\* analysis is used at once
CallQualityService ==
  /\ analyses_done < MaxAnalyses
  /\ analysis_call.op # "pending"
  /\ analyses_done' = analyses_done + 1
  /\ \E content_model \in Documents, openai_client \in BOOLEAN, anthropic_client \in BOOLEAN :
       IF openai_client \/ anthropic_client
       THEN /\ analysis_call' = [op |-> "pending", content |-> content_model, llm |-> "fallback",
                                 client |-> IF openai_client THEN "openai" ELSE "anthropic",
                                 calls |-> 1, outcome |-> "none"]
            /\ analysis_result' = Null
       ELSE /\ analysis_call' = [op |-> "quality", content |-> content_model, llm |-> "fallback",
                                 client |-> "none", calls |-> 0, outcome |-> "none"]
            /\ analysis_result' = analyze_content_quality(content_model, "fallback")
  /\ UNCHANGED <<roadmapVars, detectVars, suggestVars, analyzeVars, alternativesVars,
                 entry_alternatives, ranked, column, column_profile, added_signature,
                 wiki_requests, page_creation,
                 column_types, visualization_suggestions,
                 chunking,
                 extraction,
                 heading_fix>>

\* the service answers the pending call (or the client library gives up and
\* raises), and analyze_content_quality runs to its return
ServiceAnswers ==
  /\ analysis_call.op = "pending"
  /\ \E outcome \in {"failed", "timed_out", "json_object", "json_list"} :
       /\ analysis_call' = _ai_content_quality_analysis(analysis_call, outcome)
       /\ analysis_result' = IF analysis_call'.op = "quality"
                             THEN analyze_content_quality(analysis_call.content, analysis_call'.llm)
                             ELSE Null
  /\ UNCHANGED <<roadmapVars, detectVars, suggestVars, analyzeVars, alternativesVars,
                 entry_alternatives, ranked, column, column_profile, added_signature,
                 analyses_done,
                 wiki_requests, page_creation,
                 column_types, visualization_suggestions,
                 chunking,
                 extraction,
                 heading_fix>>

\* the analyzer always takes its own steps; nothing obliges the service to answer
SpecEnrich ==
  Init /\ [][CallQualityService \/ ServiceAnswers]_vars /\ WF_vars(CallQualityService)

\* ------------------------------------------------------------------
\* Page creator: calls
\* ------------------------------------------------------------------

\* extract_page_info_from_url: one GET of the original page
ExtractPageInfoFromUrl ==
  /\ Len(wiki_requests) < MaxRequests
  /\ wiki_requests' = Append(wiki_requests,
                             [method |-> "GET", path |-> "/wiki/rest/api/content",
                              page_id |-> "42", title |-> <<>>])
  /\ page_creation' = [op |-> "extract_page_info_from_url"]
  /\ UNCHANGED <<roadmapVars, detectVars, suggestVars, analyzeVars, alternativesVars,
                 entry_alternatives, ranked, qualityVars, column, column_profile,
                 added_signature,
                 column_types, visualization_suggestions,
                 chunking,
                 extraction,
                 heading_fix>>

\* ConfluencePageCreator.create_enhanced_page(enhanced_content, original_page_info, report_data)
CreateEnhancedPage ==
  /\ Len(wiki_requests) < MaxRequests
  /\ \E page_title \in PageTitles, space_key \in {"", "SPACE"} :
       LET original_page_info == [title |-> page_title, space_key |-> space_key, page_id |-> "42"]
           clock == [hms |-> "143052", dmy |-> "151224", dmY |-> "15122024",
                     display |-> "15/12/24 14:30"]
           created == create_enhanced_page(original_page_info, clock)
       IN /\ wiki_requests' = wiki_requests \o created.requests
          /\ page_creation' = [op |-> "create_enhanced_page", original |-> original_page_info,
                               clock |-> clock, sent |-> created.requests,
                               result |-> created.result]
  /\ UNCHANGED <<roadmapVars, detectVars, suggestVars, analyzeVars, alternativesVars,
                 entry_alternatives, ranked, qualityVars, column, column_profile,
                 added_signature,
                 column_types, visualization_suggestions,
                 chunking,
                 extraction,
                 heading_fix>>

\* _create_confluence_page(page_details, content, original_page_info) on the
\* details of _generate_page_details; response is the status answered to
\* the POST, or 0 when the request raises
CreateConfluencePage ==
  /\ Len(wiki_requests) < MaxRequests
  /\ \E page_title \in PageTitles, response \in {200, 201, 500, 0} :
       LET original_page_info == [title |-> page_title, space_key |-> "SPACE", page_id |-> "42"]
           clock == [hms |-> "143052", dmy |-> "151224", dmY |-> "15122024",
                     display |-> "15/12/24 14:30"]
           page_details == _generate_page_details(original_page_info, clock)
           post == _create_confluence_page(page_details, original_page_info)
       IN /\ wiki_requests' = Append(wiki_requests, post)
          /\ page_creation' = [op |-> "_create_confluence_page", original |-> original_page_info,
                               clock |-> clock, sent |-> <<post>>,
                               result |-> IF response = 200
                                          THEN [success |-> TRUE, page_id |-> "77"]
                                          ELSE [success |-> FALSE, error |-> response]]
  /\ UNCHANGED <<roadmapVars, detectVars, suggestVars, analyzeVars, alternativesVars,
                 entry_alternatives, ranked, qualityVars, column, column_profile,
                 added_signature,
                 column_types, visualization_suggestions,
                 chunking,
                 extraction,
                 heading_fix>>

SpecPages ==
  Init /\ [][ExtractPageInfoFromUrl \/ CreateEnhancedPage \/ CreateConfluencePage]_vars

\* ------------------------------------------------------------------
\* Chart suggestions: calls
\* ------------------------------------------------------------------

\* _generate_visualization_suggestions on the analysis of a table with one
\* more column than the previous one
GenerateVisualizationSuggestions ==
  /\ Len(column_types) < MaxColumns
  /\ \E t \in {"datetime", "numeric", "categorical", "text", "empty"} :
       /\ column_types' = Append(column_types, t)
       /\ visualization_suggestions' =
            _generate_visualization_suggestions(analyze_data_structure(column_types'))
  /\ UNCHANGED <<roadmapVars, detectVars, suggestVars, analyzeVars, alternativesVars,
                 entry_alternatives, ranked, qualityVars, column, column_profile,
                 added_signature, wiki_requests, page_creation,
                 chunking,
                 extraction,
                 heading_fix>>

SpecCharts == Init /\ [][GenerateVisualizationSuggestions]_vars

\* ------------------------------------------------------------------
\* Text chunks: chunk_text (helpers.py)
\* ------------------------------------------------------------------

MaxTextLen == 6
MaxChunkSize == 5
MaxRecordedChunks == 8

\* chunk_text(text, chunk_size, overlap) up to its loop: a text of letters
\* and full stops, 0 <= overlap < chunk_size
ChunkText ==
  /\ chunking.pc = "idle"
  /\ \E n \in 0..MaxTextLen, chunk_size \in 1..MaxChunkSize :
       \E text \in [1..n -> {"a", "."}], overlap \in 0..(chunk_size - 1) :
         chunking' = IF Len(text) <= chunk_size
                     THEN [pc |-> "done", text |-> text, chunk_size |-> chunk_size,
                           overlap |-> overlap, start |-> 0, chunks |-> <<text>>]
                     ELSE [pc |-> "loop", text |-> text, chunk_size |-> chunk_size,
                           overlap |-> overlap, start |-> 0, chunks |-> <<>>]
  /\ UNCHANGED <<roadmapVars, detectVars, suggestVars, analyzeVars, alternativesVars,
                 entry_alternatives, ranked, qualityVars, column, column_profile,
                 added_signature, wiki_requests, page_creation,
                 column_types, visualization_suggestions,
                 extraction,
                 heading_fix>>

\* one test of `while start < len(text)` and, when it holds, one pass of
\* the body.  Indices count from 0 as in the code; a negative slice index
\* counts from the end of the text.  Only the first MaxRecordedChunks chunks
\* are recorded.
ChunkTextLoop ==
  /\ chunking.pc = "loop"
  /\ LET text == chunking.text
         start == chunking.start
         slice_index(i) == IF i < 0 THEN (IF i + Len(text) < 0 THEN 0 ELSE i + Len(text))
                           ELSE IF i > Len(text) THEN Len(text) ELSE i
         full_end == start + chunking.chunk_size
         stops == {i \in slice_index(start)..(slice_index(full_end) - 1) : text[i + 1] = "."}
         sentence_end == IF stops = {} THEN -1 ELSE CHOOSE i \in stops : \A j \in stops : j <= i
         end == IF full_end < Len(text) /\ sentence_end > start + (chunking.chunk_size \div 2)
                THEN sentence_end + 1 ELSE full_end
         chunk == SubSeq(text, slice_index(start) + 1, slice_index(end))
     IN IF start < Len(text)
        THEN chunking' = [chunking EXCEPT
                            !.chunks = IF Len(@) < MaxRecordedChunks THEN Append(@, chunk) ELSE @,
                            !.start = end - chunking.overlap]
        ELSE chunking' = [chunking EXCEPT !.pc = "done"]
  /\ UNCHANGED <<roadmapVars, detectVars, suggestVars, analyzeVars, alternativesVars,
                 entry_alternatives, ranked, qualityVars, column, column_profile,
                 added_signature, wiki_requests, page_creation,
                 column_types, visualization_suggestions,
                 extraction,
                 heading_fix>>

\* the loop keeps running: weak fairness of its step
SpecChunk == Init /\ [][ChunkText \/ ChunkTextLoop]_vars /\ WF_vars(ChunkTextLoop)

\* ------------------------------------------------------------------
\* Pattern classifier: calls
\* ------------------------------------------------------------------

\* _analyze_column on the column read so far plus one more value
AnalyzeColumn ==
  /\ Len(column) < MaxColumnLen
  /\ \E value \in ColumnValues :
       /\ column' = Append(column, value)
       /\ column_profile' = _analyze_column(column')
  /\ UNCHANGED <<roadmapVars, detectVars, suggestVars, analyzeVars, alternativesVars,
                 entry_alternatives, ranked, qualityVars, added_signature,
                 wiki_requests, page_creation,
                 column_types, visualization_suggestions,
                 chunking,
                 extraction,
                 heading_fix>>

SpecClassify == Init /\ [][AnalyzeColumn]_vars

\* ------------------------------------------------------------------
\* Properties of the roadmap planner
\* ------------------------------------------------------------------

\* reading the week count back out of an 'N weeks' string
MaxTotalWeeks == 96
ParseWeeks(str) == CHOOSE n \in 0..MaxTotalWeeks : FormatWeeks(n) = str

\* reading the ordinal back out of a 'Phase N' label
MaxOrdinal == 9
ParsePhase(str) == CHOOSE n \in 0..MaxOrdinal : "Phase " \o ToString(n) = str

Severity == [Critical |-> 4, High |-> 3, Medium |-> 2, Low |-> 1]
UrgencyOf == [Critical |-> "critical", High |-> "high", Medium |-> "medium", Low |-> "low"]

RoadmapReturned == ~IsRaised(roadmap)

\* the input suggestions whose urgency is u, as a set of positions
MembersOf(u) ==
  {i \in 1..Len(suggestions) : suggestions[i].modernization_urgency = u}

MaxOf(S) == CHOOSE m \in S : \A x \in S : x <= m

RECURSIVE SumDurations(_)
SumDurations(phs) ==
  IF phs = <<>> THEN 0 ELSE ParseWeeks(phs[1].duration) + SumDurations(Tail(phs))

\* C5: the emitted phases appear in strictly decreasing urgency severity
\* (critical, high, medium, low), hence at most one phase per urgency bucket.
C5_PhasesStrictlyDecreasingUrgency ==
  RoadmapReturned =>
    \A i, j \in 1..Len(roadmap.phases) :
      i < j => Severity[roadmap.phases[i].priority] > Severity[roadmap.phases[j].priority]

\* a low-urgency suggestion supplied before a critical one, both planned
C5_Witness ==
  /\ RoadmapReturned
  /\ Len(suggestions) >= 2
  /\ suggestions[1].modernization_urgency = "low"
  /\ suggestions[2].modernization_urgency = "critical"
  /\ Len(roadmap.phases) = 2
  /\ roadmap.phases[1].priority = "Critical"

\* C6: an empty urgency bucket produces no phase and the emitted phases are
\* numbered 1, 2, ..., n in emission order without gaps.
C6_PhasesNumberedConsecutively ==
  RoadmapReturned =>
    /\ \A i \in 1..Len(roadmap.phases) :
         /\ ParsePhase(roadmap.phases[i].phase) = i
         /\ MembersOf(UrgencyOf[roadmap.phases[i].priority]) # {}
    /\ Len(roadmap.phases) =
         Cardinality({k \in 1..Len(phases_keys) : MembersOf(phases_keys[k]) # {}})

\* critical and medium present, high empty: the medium phase is "Phase 2"
C6_Witness ==
  /\ RoadmapReturned
  /\ MembersOf("critical") # {} /\ MembersOf("high") = {} /\ MembersOf("medium") # {}
  /\ Len(roadmap.phases) >= 2
  /\ roadmap.phases[2].priority = "Medium"
  /\ roadmap.phases[2].phase = "Phase 2"

C9_TeamMatchesDurationEffort ==
  RoadmapReturned =>
    \A i \in 1..Len(roadmap.phases) :
      \E e \in DOMAIN effort_map :
        /\ effort_map[e] = ParseWeeks(roadmap.phases[i].duration)
        /\ roadmap.phases[i].team_requirements = team_map[e]

\* ------------------------------------------------------------------
\* Properties of the technology detector
\* ------------------------------------------------------------------

\* C3: detect() never returns two Detections with the same
\* (technology key, version) pair.
C3_NoDuplicateKeyVersion ==
  \A i, j \in 1..Len(detections) :
    (/\ detections[i].technology.name = detections[j].technology.name
     /\ detections[i].technology.version = detections[j].technology.version) => i = j

\* the same versioned mention twice plus a bare one: four raw matches in
\* two groups, two detections returned
C3_Witness ==
  /\ Len(RawDetections(content)) >= 4
  /\ \E i, j \in 1..Len(RawDetections(content)) :
       /\ i # j
       /\ RawDetections(content)[i].technology = RawDetections(content)[j].technology
  /\ Len(detections) = 2

\* C4: within every group of raw matches sharing (technology key, version or
\* none) exactly one Detection is kept and it carries the highest confidence
\* found in the group.
C4_KeptHasHighestConfidence ==
  LET raw == RawDetections(content)
      group(r) == {k \in 1..Len(raw) : raw[k].technology = r.technology}
  IN \A i \in 1..Len(raw) :
       LET kept == {k \in 1..Len(detections) :
                      detections[k].technology = raw[i].technology}
       IN /\ Cardinality(kept) = 1
          /\ \A k \in kept :
               /\ \A g \in group(raw[i]) : raw[g].confidence <= detections[k].confidence
               /\ \E g \in group(raw[i]) : raw[g] = detections[k]

\* a group whose later match has the higher confidence, which replaced the
\* earlier one
C4_Witness ==
  LET raw == RawDetections(content)
  IN \E i, j \in 1..Len(raw) :
       /\ i < j
       /\ raw[i].technology = raw[j].technology
       /\ raw[i].confidence < raw[j].confidence
       /\ \E k \in 1..Len(detections) : detections[k] = raw[j]

\* ------------------------------------------------------------------
\* Properties of the suggestion lists
\* ------------------------------------------------------------------

\* priorities and confidences of a list, position by position, are ordered
\* by priority and, within a priority, by descending confidence
SortedByPriorityThenConfidence(priorities, confidences) ==
  \A i, j \in 1..Len(priorities) :
    i < j =>
      \/ priority_rank[priorities[i]] > priority_rank[priorities[j]]
      \/ /\ priority_rank[priorities[i]] = priority_rank[priorities[j]]
         /\ confidences[i] >= confidences[j]

PrioritiesOf(list) == [i \in 1..Len(list) |-> list[i].priority]

\* C10: every final suggestion list is ordered by priority (high before
\* medium before low) and, among suggestions of equal priority, by
\* confidence in descending order.  Stated for the modernization
\* suggestions (whose confidence is that of their technology mapping), for
\* the enhancements, and for the recommendations (which carry a priority only).
C10_SortedByPriorityThenConfidence ==
  /\ SortedByPriorityThenConfidence(
       PrioritiesOf(tm_suggestions),
       [i \in 1..Len(tm_suggestions) |-> tm_suggestions[i].technology_mappings[1].confidence])
  /\ SortedByPriorityThenConfidence(
       PrioritiesOf(enhancements),
       [i \in 1..Len(enhancements) |-> enhancements[i].confidence])
  /\ SortedByPriorityThenConfidence(
       PrioritiesOf(recommendations),
       [i \in 1..Len(recommendations) |-> 0])

\* ------------------------------------------------------------------
\* Properties of the orchestrators
\* ------------------------------------------------------------------

OptionOn(run, option) == Get(run.request.analysis_options, option, TRUE)

\* a run of main.py's handler that got a document to analyse
AnalyzedByMain(run) ==
  /\ run.endpoint = "analysis/analyze"
  /\ components.content_extractor
  /\ Wiki[run.request.page_url].found

\* a run of the enhanced handler that got a document to analyse
AnalyzedByEnhanced(run) ==
  /\ run.endpoint = "enhanced/analyze"
  /\ Wiki[run.request.confluence_url].found

\* the component slot holds a result, and the default one if the component failed
SlotFilled(analysis, slot, failed) ==
  /\ slot \in DOMAIN analysis
  /\ failed => DOMAIN analysis[slot] = {}

\* C1: a failure inside one component of an analysis is caught and replaced
\* by that component's default result, the other components still
\* contribute, and the analysis is not aborted.
C1_ComponentFailureIsolated ==
  \A i \in 1..Len(history) :
    LET run == history[i]
    IN /\ AnalyzedByMain(run) =>
            /\ run.response.status = 200
            /\ (components.content_analyzer /\ OptionOn(run, "structure_analysis")) =>
                 SlotFilled(run.response.body.analysis, "structure",
                            IsRaised(_analyze_heading_hierarchy(Wiki[run.request.page_url].headings)))
            /\ (components.content_analyzer /\ OptionOn(run, "quality_analysis")) =>
                 SlotFilled(run.response.body.analysis, "quality", run.llm = "json_list")
       /\ AnalyzedByEnhanced(run) =>
            /\ run.response.status = 200
            /\ OptionOn(run, "table_analysis") =>
                 /\ ~IsNull(run.response.body.table_analysis)
                 /\ Wiki[run.request.confluence_url].soup = "malformed" =>
                      /\ run.response.body.table_analysis.table_count = 0
                      /\ run.response.body.table_analysis.visualization_potential = "error"
            /\ OptionOn(run, "concept_extraction") =>
                 ~IsNull(run.response.body.concept_analysis)
            /\ OptionOn(run, "modernization_analysis") =>
                 /\ ~IsNull(run.response.body.modernization_analysis)
                 /\ run.response.body.modernization_analysis.outdated_technologies = <<>>
                 /\ run.response.body.modernization_analysis.modernization_suggestions = <<>>

\* the report of a completed run with its timestamp field blanked
WithoutTimestamp(run) ==
  IF run.endpoint = "analysis/analyze"
  THEN [run.response.body EXCEPT !.timestamp = ""]
  ELSE [run.response.body EXCEPT !.content_metadata.analysis_timestamp = ""]

\* C2: two analyses of the same document with the same options produce
\* identical reports except for the timestamp field.
C2_IdenticalExceptTimestamp ==
  \A i, j \in 1..Len(history) :
    (/\ history[i].endpoint = history[j].endpoint
     /\ history[i].request = history[j].request
     /\ history[i].response.status = 200
     /\ history[j].response.status = 200)
    => WithoutTimestamp(history[i]) = WithoutTimestamp(history[j])

\* ------------------------------------------------------------------
\* Properties of the alternative suggester
\* ------------------------------------------------------------------

\* C11: no analysis, recommendation or planning operation mutates the
\* reference data: after any sequence of calls the alternative database and
\* the migration templates hold the values they were loaded with (the
\* signature database technology_patterns is read-only in every operation).
C11_ReferenceDataUnchanged ==
  /\ alternatives_database = _load_alternatives_database
  /\ migration_templates = _load_migration_templates

\* C17: a technology absent from the alternative database still gets exactly
\* one generic candidate for its category, whatever the category: its key is
\* in the result, with a list of one candidate of the technology's category.
C17_GenericCandidateForUnknown ==
  \A i \in 1..Len(alt_detections) :
    LET tech == alt_detections[i].technology
        tech_key == _normalize_technology_key(tech.name, tech.version)
    IN tech_key \notin DOMAIN alternatives_database =>
         /\ tech_key \in DOMAIN alt_suggestions
         /\ Len(alt_suggestions[tech_key]) = 1
         /\ alt_suggestions[tech_key][1].category = tech.category

\* Score of the specification, in thousandths
learning_curve_weight == [easy |-> 10, moderate |-> 7, steep |-> 3]
migration_effort_weight == [low |-> 10, medium |-> 6, high |-> 2]
cost_impact_weight == [lower |-> 10, similar |-> 8, higher |-> 3]
Score(candidate) ==
  4 * candidate.compatibility_score
  + 2 * candidate.community_support
  + 15 * learning_curve_weight[candidate.learning_curve]
  + 15 * migration_effort_weight[candidate.migration_effort]
  + 10 * cost_impact_weight[candidate.cost_impact]

\* C18: the candidates returned for a technology are ordered by
\* non-increasing Score.
C18_OrderedByScore ==
  \A key \in DOMAIN alt_suggestions :
    \A i \in 1..(Len(alt_suggestions[key]) - 1) :
      Score(alt_suggestions[key][i]) >= Score(alt_suggestions[key][i + 1])

\* the three alternatives of AngularJS 1.x were returned, in another order
\* than the database lists them
C18_Witness ==
  /\ "angular_1" \in DOMAIN alt_suggestions
  /\ Len(alt_suggestions["angular_1"]) = 3
  /\ alt_suggestions["angular_1"] # alternatives_database["angular_1"]

Neutral == 5000

QualityKeys ==
  {"clarity_score", "completeness_score", "consistency_score", "overall_score",
   "improvement_suggestions"}

StructureKeys == {"hierarchy", "flow", "readability"}

ScoredQuality ==
  /\ analysis_call.op = "quality"
  /\ ~IsRaised(analysis_result)
  /\ QualityKeys \subseteq DOMAIN analysis_result.results

\* C12: analysing an empty or blank document returns a structurally valid
\* report without raising, with an empty suggestion list and the default
\* neutral scores.
C12_EmptyDocumentNeutralReport ==
  (analysis_call.op = "quality" /\ analysis_call.content.raw_text.words = 0) =>
    /\ ScoredQuality
    /\ analysis_result.results.improvement_suggestions = <<>>
    /\ analysis_result.results.clarity_score = Neutral
    /\ analysis_result.results.consistency_score = Neutral
    /\ analysis_result.results.completeness_score >= Neutral

\* did the computation of the heading-hierarchy sub-score raise
HierarchyRaised(content_model) ==
  IsRaised(_analyze_heading_hierarchy(
             Get(Get(content_model.metadata, "structure", EmptyDict), "headings", <<>>)))

\* did the computation of the completeness sub-score raise
CompletenessRaised(content_model) ==
  \E key \in {"lists", "tables", "links"} :
    LET structure == Get(content_model.metadata, "structure", EmptyDict)
    IN key \in DOMAIN structure /\ "count" \notin DOMAIN structure[key]

\* C13: whenever the computation of a quality sub-score raises, that
\* sub-score takes the neutral default 5.0 and the exception does not leave
\* the scorer.
C13_FailedSubScoreIsNeutral ==
  /\ (analysis_call.op = "structure" /\ HierarchyRaised(analysis_call.content)) =>
       /\ ~IsRaised(analysis_result)
       /\ "hierarchy" \in DOMAIN analysis_result.results
       /\ analysis_result.results.hierarchy.structure_score = Neutral
  /\ (analysis_call.op = "quality" /\ analysis_call.llm # "json_list"
      /\ CompletenessRaised(analysis_call.content)) =>
       /\ ScoredQuality
       /\ analysis_result.results.completeness_score = Neutral

\* C14: after a contained failure every sub-score and suggestion list of the
\* returned report is present; none of them is missing.
C14_NothingMissingAfterFailure ==
  /\ (analysis_call.op = "quality" /\ ~IsRaised(analysis_result)) =>
       QualityKeys \subseteq DOMAIN analysis_result.results
  /\ (analysis_call.op = "structure" /\ ~IsRaised(analysis_result)) =>
       StructureKeys \subseteq DOMAIN analysis_result.results

InRange(value, low, high) == low <= value /\ value <= high

\* C15: every confidence lies in [0, 1] (hundredths: 0..100) and every
\* quality score, the overall score included, in [0, 10] (thousandths:
\* 0..10000).
C15_ConfidencesAndScoresInRange ==
  /\ \A i \in 1..Len(detections) : InRange(detections[i].confidence, 0, 100)
  /\ (analysis_call.op # "none" /\ ~IsRaised(analysis_result)) =>
       InRange(analysis_result.confidence_score, 0, 100)
  /\ ScoredQuality =>
       \A key \in QualityKeys \ {"improvement_suggestions"} :
         InRange(analysis_result.results[key], 0, 10000)
  /\ (analysis_call.op = "structure" /\ ~IsRaised(analysis_result)
      /\ "hierarchy" \in DOMAIN analysis_result.results) =>
       InRange(analysis_result.results.hierarchy.structure_score, 0, 100)

\* a detection was made, and a document was scored whose completeness
\* points add up to more than 10 and whose clarity average exceeds 0
C15_Witness ==
  /\ detections # <<>>
  /\ ScoredQuality
  /\ analysis_call.content.raw_text.words >= 500
  /\ analysis_result.results.completeness_score = 10000
  /\ analysis_result.results.clarity_score > 0
  /\ analysis_result.confidence_score = 85

\* ------------------------------------------------------------------
\* Properties of the pattern classifier
\* ------------------------------------------------------------------

\* C16: for every column, mixed ones included, the classifier returns a
\* profile whose type is one of datetime, numeric, categorical, text, empty
\* and whose completeness lies in [0, 1] (thousandths: 0..1000).
C16_ProfileForEveryColumn ==
  column # <<>> =>
    /\ ~IsRaised(column_profile)
    /\ column_profile.type \in {"datetime", "numeric", "categorical", "text", "empty"}
    /\ column_profile.completeness >= 0
    /\ column_profile.completeness <= 1000

\* ------------------------------------------------------------------
\* Properties of the detector under a faulting signature
\* ------------------------------------------------------------------

C21_ConfidenceByFormula ==
  LET Stated(tech, pattern, m) ==
        LET sum == 50 + (IF pattern.kind = "versioned" THEN 20 ELSE 0)
                      + (IF pattern.kind # "versioned" /\ m.word = tech THEN 20 ELSE 0)
                      + (IF m.keyword THEN 10 ELSE 0)
        IN IF sum > 100 THEN 100 ELSE sum
  IN \A i \in 1..Len(detections) :
       LET d == detections[i]
           m == content[d.line_number]
       IN \E t \in 1..Len(technology_patterns) :
            /\ technology_patterns[t].tech = d.technology.name
            /\ \E p \in 1..Len(technology_patterns[t].patterns) :
                 /\ Matches(technology_patterns[t].patterns[p], m)
                 /\ d.confidence = Stated(d.technology.name, technology_patterns[t].patterns[p], m)

\* ------------------------------------------------------------------
\* Properties of the call to the text-generation service
\* ------------------------------------------------------------------

\* C22: when the call to the service fails or times out, the analysis goes on
\* with the rule-based result, and the call is not retried: at most one call
\* is made per analysis.
C22_FailedCallNotRetried ==
  analysis_call.op \in {"pending", "quality"} =>
    /\ analysis_call.calls <= 1
    /\ (analysis_call.op = "quality" /\ analysis_call.outcome \in {"failed", "timed_out"}) =>
         analysis_result = analyze_content_quality(analysis_call.content, "fallback")

C22_Witness ==
  /\ analysis_call.op = "quality"
  /\ analysis_call.outcome = "timed_out"
  /\ analysis_call.calls = 1
  /\ analysis_result.confidence_score = 85
  /\ analysis_result.results.improvement_suggestions
       = _fallback_quality_analysis(analysis_call.content.raw_text)
  /\ analysis_result.results.improvement_suggestions # <<>>

\* C23: every call to the service is bounded by a timeout, so an analysis
\* that waits for the service eventually completes even if the service never
\* answers.
C23_AnalysisCompletes ==
  (analysis_call.op = "pending") ~> (analysis_call.op = "quality")

\* ------------------------------------------------------------------
\* Properties of the page creator
\* ------------------------------------------------------------------

\* C24: the only write request ever sent to the wiki is a POST that creates
\* a new page; no request updates, overwrites or deletes the original page.
C24_OnlyCreatingPosts ==
  \A i \in 1..Len(wiki_requests) :
    wiki_requests[i].method # "GET" =>
      /\ wiki_requests[i].method = "POST"
      /\ wiki_requests[i].page_id = None
      /\ wiki_requests[i].path \in {"/rest/api/content", "/wiki/rest/api/content"}

C24_Witness ==
  /\ Len(wiki_requests) = 2
  /\ wiki_requests[1].method = "GET" /\ wiki_requests[1].page_id = "42"
  /\ wiki_requests[2].method = "POST"
  /\ ~IsNull(page_creation)
  /\ page_creation.op = "_create_confluence_page"
  /\ page_creation.result.success

\* C25: the title sent in the create request differs from the original
\* title and is the cleaned original title (blanks replaced by underscores)
\* followed by an underscore-separated timestamp suffix.
C25_TitleIsCleanedPlusTimestamp ==
  (~IsNull(page_creation) /\ page_creation.op # "extract_page_info_from_url") =>
    \A i \in 1..Len(page_creation.sent) :
      LET sent_title == page_creation.sent[i].title
          clean_title == SubSeq(_generate_page_details(page_creation.original,
                                                       page_creation.clock).title,
                                1, Len(_generate_page_details(page_creation.original,
                                                              page_creation.clock).title) - 4)
          n == Len(clean_title)
      IN /\ sent_title # page_creation.original.title
         /\ Len(sent_title) > n + 1
         /\ SubSeq(sent_title, 1, n) = clean_title
         /\ sent_title[n + 1] = "_"
         /\ sent_title[Len(sent_title)] \in {page_creation.clock.dmy, page_creation.clock.dmY}

\* ------------------------------------------------------------------
\* Properties of the chart suggestions
\* ------------------------------------------------------------------

\* C26: when the column profiles hold a datetime column and one or more
\* numeric columns, the suggestions hold one line chart of priority high for
\* each numeric column, pairing that column with the datetime column.
C26_LineChartPerNumericColumn ==
  LET analysis == analyze_data_structure(column_types)
      numeric == {analysis.numeric_columns[i] : i \in 1..Len(analysis.numeric_columns)}
      line_charts == {i \in 1..Len(visualization_suggestions) :
                        visualization_suggestions[i].type = "line_chart"}
  IN (analysis.time_columns # <<>> /\ numeric # {}) =>
       \A h \in numeric :
         Cardinality({i \in line_charts :
                        /\ visualization_suggestions[i].priority = "high"
                        /\ visualization_suggestions[i].columns.y = h
                        /\ visualization_suggestions[i].columns.x = analysis.time_columns[1]}) = 1

\* ------------------------------------------------------------------
\* Properties of chunk_text
\* ------------------------------------------------------------------

\* C27: chunk_text terminates and returns a finite list of chunks for every
\* text and every chunk_size and overlap with 0 <= overlap < chunk_size: the
\* loop, once entered, is left.
C27_ChunkTextTerminates ==
  (chunking.pc = "loop") ~> (chunking.pc = "done")

\* ------------------------------------------------------------------
\* Properties of the roadmap membership
\* ------------------------------------------------------------------

\* C28: every input suggestion is placed in exactly one roadmap phase,
\* whatever its urgency value: the phase of its urgency holds exactly the
\* suggestions of that urgency, and the member counts of the phases sum to
\* the number of input suggestions.
C28_EverySuggestionInOnePhase ==
  LET RECURSIVE members(_)
      members(k) == IF k > Len(roadmap.phases) THEN 0
                    ELSE Len(roadmap.phases[k].technologies) + members(k + 1)
  IN /\ ~IsRaised(roadmap)
     /\ members(1) = Len(suggestions)
     /\ \A k \in 1..Len(roadmap.phases) :
          \E u \in DOMAIN title :
            /\ roadmap.phases[k].priority = title[u]
            /\ Len(roadmap.phases[k].technologies)
                 = Cardinality({i \in 1..Len(suggestions) :
                                  suggestions[i].modernization_urgency = u})

\* ------------------------------------------------------------------
\* Properties of the endpoints' error responses
\* ------------------------------------------------------------------

\* C29: an HTTP error raised deliberately inside an endpoint handler (400
\* invalid URL, 404 content not extractable, 503 component unavailable)
\* reaches the client with that status code and is never converted into a
\* 500.
C29_DeliberateStatusReachesClient ==
  /\ \A i \in 1..Len(history) :
       LET run == history[i]
       IN /\ (run.endpoint = "analysis/analyze" /\ ~components.content_extractor)
               => run.response.status = 503
          /\ (run.endpoint = "analysis/analyze" /\ components.content_extractor
              /\ ~Wiki[run.request.page_url].found)
               => run.response.status = 404
          /\ (run.endpoint = "enhanced/analyze" /\ ~Wiki[run.request.confluence_url].found)
               => run.response.status = 404
  /\ ~IsNull(extraction) =>
       LET page_url == extraction.request.page_url
       IN /\ page_url \notin PageUrls => extraction.response.status = 400
          /\ (page_url \in PageUrls /\ ~components.content_extractor)
               => extraction.response.status = 503
          /\ (page_url \in PageUrls /\ components.content_extractor /\ ~Wiki[page_url].found)
               => extraction.response.status = 404

\* ------------------------------------------------------------------
\* Properties of the structure optimizer
\* ------------------------------------------------------------------

\* C30: the heading list returned by _fix_heading_hierarchy contains no
\* level jump greater than +1 between consecutive headings (the first
\* heading counted against level 0), so the heading-hierarchy scorer reports
\* no level-jump issue on it.
C30_FixedHeadingsHaveNoJump ==
  (~IsNull(heading_fix) /\ ~IsRaised(heading_fix.result)) =>
    LET fixed_headings == heading_fix.result.fixed_headings
        prev(i) == IF i = 1 THEN 0 ELSE fixed_headings[i - 1].level
    IN /\ Len(fixed_headings) = Len(heading_fix.headings)
       /\ \A i \in 1..Len(fixed_headings) : fixed_headings[i].level <= prev(i) + 1
       /\ fixed_headings # <<>> =>
            /\ _analyze_heading_hierarchy(fixed_headings).issues = <<>>
            /\ _analyze_heading_hierarchy(fixed_headings).structure_score = 100

\* a list with two jumps in a row was fixed: h1, h3, h4 became h1, h2, h3
C30_Witness ==
  /\ ~IsNull(heading_fix)
  /\ ~IsRaised(heading_fix.result)
  /\ Len(heading_fix.headings) = 3
  /\ heading_fix.headings[1].level = 1
  /\ heading_fix.headings[2].level = 3
  /\ heading_fix.headings[3].level = 4
  /\ Len(heading_fix.result.fixes) = 2
  /\ heading_fix.result.fixed_headings[3].level = 3

====
